# A verification project for the puggey back end

The program is a NestJS service over Prisma and Postgres that many small
companies (tenants) share. Paths below are relative to `src/src/` unless they
say otherwise. The modules in this directory model the parts in which money or
a decision can go wrong; TLC checks them on small instances, TLAPS proves the
most important results for every value of the constants.

## 1. Inventory

### How the parts run

Every handler opens an interactive transaction (`prisma/rls.util.ts:15-27`): at
most 10 s to get a connection, at most 15 s to run, isolation READ COMMITTED
(Postgres' default; nothing sets another). Hence

- every *statement* sees what is committed when it starts, so a handler that
  reads, checks and then writes may write over what another committed in
  between; nothing is validated at commit;
- a written row is locked until the transaction ends;
- an abort (exception, timeout, lost connection, stopped process) leaves nothing
  of the transaction;
- a notification to *another* user is written by a second transaction after the
  first has committed, so a handler may die between the two.

There are no queues, workers or timers in the program: all concurrency is
between requests, all waiting is for row locks.

### Components

| component | state | operations | what is hard | what makes it correct |
|---|---|---|---|---|
| Advances `advances/advances.service.ts` | `advances` (amount, mode, instalment, recoveredAmount, closedAt), `advance_recoveries` (one row per advance and period) | create, update, remove, deductions (read only), applyRecovery | re-runs of a period; concurrent runs; edits and removals that race a recovery; the cap | recovered amount = sum of rows; closed = repaid; never more than was advanced; traceable; oldest first among those that ask for something |
| Payroll `payroll/payroll.service.ts` | `payslips`, `payroll_settings` | updateSettings, generate (everyone or one), preview, own payslips, PDF | calls Advances inside its transaction; idempotent re-runs; pay below zero | recovery never exceeds the pay; payslip and rows agree |
| Advance requests `advances/advance-requests.service.ts`, categories `advance-categories.service.ts` | `advance_requests`, `advance_categories` (soft delete) | submit, cancel, decide (creates an advance), categories | two decisions at once; lost notices; category removed meanwhile | decided once, one advance per approval, the requester hears of it |
| Leave `leave/leave.service.ts` | `leave_types`, `leave_balances`, `leave_requests`, `leave_approval_actions`, `approval_delegations` | types, balances (created when first seen), submit, cancel, decide, delegations | who decides when supervisors are away or form a circle; racing decisions; lost notices | used days = days of approved requests; decided once; the nearest available supervisor or a stand-in decides |
| Counters `counters/counters.service.ts` | `counters`, `counter_sessions`, `counter_cash_movements` | counters, open, reassign, entries (some mirrored as advances), close, edits, verify, report | five ways to edit what a report is computed from; two rows for one outflow; a counter deleted in use | a verified report is final; not verified by whoever it was with last; entries and advances in step |
| Employees `employees/employees.service.ts` | `users`, `tenant_memberships`, `departments` | create, update, deactivate, reactivate, photos, departments | plan limit and last Super Admin are count-then-write; reports handed up; circular charts | an active Super Admin remains and the plan limit holds, but for races, and those are bounded; a leaver's active reports are handed up, and nobody else drops out of a chain of supervisors |
| Racks `racks/racks.service.ts` | `racks`, `rack_assignments`, `rack_cleaning_logs` | create, rename, delete, assign, cancel, clean, rate | cancel-then-create and find-then-write races | one open assignment per rack; a completed one has its own cleaning |
| Attendance `attendance/attendance.service.ts`, places `locations/` | `attendance_events` (only ever added to), `locations` | check in and out (hand, clock, location), correct; add and delete a place | look-then-write on an event log; midnight; only the newest five events are looked at | the derived day begins before it ends; one check-out a day |
| Shifts, tasks `shifts/`, `tasks/` | `shifts`, `shift_assignments` (one per member and day), `tasks` | create, rename, delete, assign, unassign; give, move on and remove a task | count-then-delete beside find-then-upsert; lost notices | who is rostered is rostered on a shift that exists; only unassign empties a day |
| Purchasing `vendors/`, `bills/`, `products/` | `vendors`, `products`, `product_received_logs`, `bills` | receive (opens a draft bill), tag, enter, pay, rate, create by hand | look-then-create; no status check on pay, and a stale one on enter | one unpaid bill per vendor and number delivered; paid stays paid |
| Documents `documents/documents.service.ts` | `documents` (soft delete); links are signed and not stored | upload replaces, issue a link, follow it | replace-by-two-statements; links that outlive a replacement | a link sends what is current and nothing that was replaced |
| Plans, business types, tenants `plans/`, `business-types/`, `tenants/` | `plans`, `tenants` | CRUD, move a tenant, suspend it | count-then-delete | a tenant's plan exists |
| Authentication `auth/auth.service.ts` | `refresh_tokens`, `password_reset_tokens`, `users` | sign up, log in by password or Google, refresh, log out, reset | every step is a transaction of its own, so handlers overlap and die between read, revoke and insert | a reset ends every session; a session has one token |
| Guards and permissions `auth/*.guard.ts`, `permissions/`, API keys `api-keys/` | `api_keys`; what is in a token | every request; `GET me/permissions`; create, revoke, use a key | two lists of rules, and a map that is asked for once and used for long | the map offers what the guards let through |
| Dashboard `dashboard/dashboard.service.ts` | none | summary in three reads, lists | reads of different moments subtracted from one another | number and list differ by no more than what happened meanwhile |
| Notifications `notifications/` | `notifications` | create, mark read | — | see requests and leave |
| Reports, external API, memberships, email, PDFs | none | reads, output | — | — |

Interactions: payroll calls Advances inside its own transaction; a decision on
an advance request calls `createInTx` inside its own; an outflow of a counter
inserts an advance itself, and its edits and deletions follow that advance;
payroll then recovers from it; Leave reads the org chart that Employees writes;
payroll reads base salary and status; the dashboard reads
memberships, events and approved leave; a clock-in by location reads the places;
refresh reads the membership and the tenant's status. The services of the
workplace (racks, attendance, rota, purchasing, documents, sessions) otherwise
write no row in common.

`PROJECT.json` lists every component with its status, and the hazards of this
code, each at its line.

## 2. Modules

| module | models | proofs |
|---|---|---|
| `Deduction` | the arithmetic: `toPaisa` integers, what a period asks of an advance, the greedy cap, percentages rounded half up | `DeductionProofs` |
| `Sums` | the sum over rows that the code takes afresh with `aggregate` and `reduce` | `DeductionProofs` |
| `Ledger` | Advances and Payroll, one action per handler, each transaction alone | `LedgerProofs` |
| `RecoveryTx` | the same ledger one SQL statement at a time: reads of committed state, row and foreign-key locks, commit, abort | `RecoveryTxProofs` |
| `DecideOnce` | abstract: what an approval workflow promises | in `AdvanceRequestsProofs` |
| `AdvanceRequests` | requests for advances, with the read and the write of a handler apart, and the announcement apart from both; refines `DecideOnce` | `AdvanceRequestsProofs` |
| `Leave` | leave requests in the same form; `resolveApprover`; refines `DecideOnce` | `LeaveProofs` |
| `Counters` | tills, EXTENDS `Ledger`: the two components composed over one advances table | `CountersProofs` |
| `Staff` | memberships, the org chart, the plan limit, the last Super Admin; plans and a tenant's change of plan | `PeopleProofs` |
| `Rows` | what the modules below share: `None` | |
| `Racks` | racks, assignments, cleanings | `WorkplaceProofs` |
| `Rota` | shifts, the roster, tasks | `WorkplaceProofs` (the roster) |
| `Attendance` | events, the ways to clock, corrections, the derived day; the places a clock-in needs | `WorkplaceProofs` |
| `Dashboard` | the summary statement by statement, the list of the absent, what commits meanwhile | `WorkplaceProofs` |
| `Purchasing` | vendors, products, deliveries, bills | `WorkplaceProofs` |
| `Documents` | uploads that replace, links, downloads | `WorkplaceProofs` |
| `Sessions` | sign-in, refresh, logout and reset for one account and its membership | `PeopleProofs` |
| `Authority` | every route with its guard, the permission map, the role in a token, API keys | `WorkplaceProofs` |
| `MC…` | the constants of the instances; `MCWorkplace` composes the eight modules above | |

How state and actions correspond to the code:

- **`Ledger`.** `advance`, `recovery`, `payslip`, `settings` are the tables;
  a row that does not exist is a record with `exists = FALSE`, and a recovery of
  0 is no row, because `applyRecoveryInTx` writes a row only for a positive
  deduction. `None` is null, and in `UpdateAdvance` a field the request does not
  give (`Given` is `??`). `UpdateAdvanceDto` validates `instalmentAmount` only
  when the same request says `recoveryMode: 'INSTALMENT'`
  (`advances/dto/update-advance.dto.ts:27-30`); a PATCH without a mode stores any
  number on an advance that is recovered by instalments
  (`advances.service.ts:144`), and no constraint of the table stands behind it.
  `Amounts` are what passes the validation, `Instalments` what may come besides.
  `CreateAdvance`, `UpdateAdvance`, `RemoveAdvance`, `ApplyRecovery`,
  `Generate`, `UpdateSettings` are the handlers; `ChangePay` stands for what
  EmployeesService does to salary and status. `orderBy dateGiven` is an
  existential over `Orders`, the permutations that respect the dates, so ties
  come in any order. `RecoveryOf…`, `…Incremented` and other definitions marked
  "Mutant" are not part of the model: they are faults used to show that the
  properties can fail.
- **`RecoveryTx`.** `tx[t]` is the transaction on connection `t`: its program
  counter, the advances still in line, what it computed, and what it wrote and
  holds locked. `Compute` is the query and the loop; `UpsertRow`, `SumRows`,
  `ReadAdvance`, `WriteAdvance` are the four statements of the loop body of
  `applyRecoveryInTx`; the line holds the advances of which something is deducted
  (`Asking`), because the loop passes over the others (line 284). `Commit` and
  `Abort` end it. `UpsertFails` is the foreign
  key of a row whose advance has gone.
- **`AdvanceRequests`, `Leave`.** `handler[h]` is a request being served: it
  rests, has read and checked (`submit`, `cancel`, `decide`), or has committed
  and has an announcement left. `Die` may strike at any time. `announced` is the
  part of the notifications table that tells of decisions; `lost` is history.
- **`Counters`.** Entry slot *i* and advance slot *i* belong together: the
  foreign key `advanceId` is the Boolean `linked`. `Report` is what
  `buildReport` computes; totals are recomputed from the entries on each read.

- **`Staff`.** A handler that hires, removes or takes back reads and checks
  (`ReadFor…`), then writes by id (`Write…`), whatever changed in between.
  `Limit` is `planLimit`: a plan that does not exist counts as the fallback
  (5 in the code, 1 in the run), and a plan without a limit is one beyond the
  number of members. `Team` is the recursive query over supervisors and
  `TeamQueryEnds` says that it returns.
  `Above` is the chain over a member, `AllAbove` the recursion it is found by. Two variables are history: `highest`, the
  highest limit so far, and `raced`, whether an admin was removed on a count that
  another removal had made out of date. The acting role is that of the token; no
  handler changes the role of a membership.
- **`Racks`, `Rota`, `Purchasing`, `Documents`, `Attendance`.** A handler is
  two statements where it is two in the code and something may come between:
  the first (`CancelPending`, `FindOpen`, `FindShift`, `CountInUse`,
  `LookForBill`, `ReadDraft`, `SoftDelete`, `LookBefore`) remembers in `saw` or
  `found` what it read, the second writes *by id* what was remembered, whatever
  has become of it. An `updateMany` that is followed by an insert is such a first
  statement: it fixes the rows it will change when it starts (those that changed meanwhile it looks at again). Handlers whose
  check and write cannot be told apart from one step (a unique index or a foreign
  key decides, or they write what they do not depend on) are one action.
  `overtaken` is set on a handler by whoever commits across it. Notices to
  others are a step of their own (`TellAssignee`, `TellTask`, `TellCorrected`).
  Foreign keys are guards: a rack or a shift that a row refers to cannot go.
- **`Attendance`.** An event is dated when it is written; the day is what
  `nepaliDateKey` makes of the date (`Day`), so the clock may pass midnight
  between look and write. `Newest` is the query with `take: 5`.
- **`Dashboard`.** `CountEmployees`, `ReadTodaysEvents` and
  `ReadLeaveAndAnswer` are the reads of `getSummary`; `CheckInToday` and its
  neighbours are the commits of other services, as far as the dashboard sees
  them. `summary.changes` counts those that fall between the reads.
- **`Sessions`.** `refresh` is three transactions: `ReadToken`, `RevokeRead`,
  `IssueRefreshToken`; a sign-in is two. `password` counts resets; a token
  carries the password its sign-in was checked against, handed on by refreshes.
- **`Authority`.** One definition per controller, its routes by the guard in
  front of them. The account joins and leaves companies while it holds tokens of
  one. `Served` is what JwtAuthGuard, RolesGuard and PugeyStaffGuard do with a
  request; `effectivePermissions` is the map, function by function.

History variables of these modules say where the code gives no promise, so that
the properties can say what it promises everywhere else: `crossed`, `mixed`
(two assignments or uploads of one rack or slot overlapped, until the next
undisturbed one), `overlapped`, `overnight` (a clock-in across another, or across
midnight), `late` (a bill or token written across a delivery, payment or reset it
had not seen), `begun`, `open`, `forked` (what has become of a session).
Nothing in the model reads them but the properties.

## 3. Runs

Twelve runs; four of them show a place where the code does not do what its
comments or messages say.

| run | question | bounds |
|---|---|---|
| `ledger` | do the books stay right through payroll, re-runs, standalone recoveries, edits, removals? | one employee, two advances on one or two dates, two periods, amounts 1 and 2, unchecked instalments −1 and 0, pay 5 or −1, receivable 0 or 2 |
| `payslip_rows` (violation) | do a payslip and the rows of its period agree after a re-run? | one advance, one period |
| `recovery` | does a recovery sent twice, beside removals, edits and aborts, stay right and end? | two connections, two advances, two periods, instalments −1 and 1 |
| `two_months` (violation) | do recoveries of *different* months that overlap stay right? | two connections, one advance |
| `requests` | are advance requests decided once, backed by an advance, and announced? | two requests, two handlers, one category |
| `two_approvals` (violation) | what if two decisions of one request overlap? | one request, two handlers |
| `leave_days` | the same for leave, and do balances agree with approvals? | two employees, two requests, two days, two handlers |
| `leave_chain` | who decides, over every org chart and every absence? | every chart of three members, two requests, two delegations |
| `counters` | do tills, entries, verification and the ledger fit together? | two employees, a counter, two sessions, one entry, one period, an unchecked instalment of 0 |
| `staff` | who remains, how many, and under whom, when hirings, departures, returns and changes of plan overlap? | four members, two handlers, two plans, limits 1 (fallback) and 2, roles Super Admin and Supervisor |
| `orphan_till` (violation) | is anybody left on a deleted counter? | two employees, a counter |
| `workplace` | what do racks, attendance, the roster, purchasing, documents, sessions, the dashboard and the guards keep when their handlers overlap and die? | below |

Why the bounds are enough: two advances are what an order, a partial deduction
and a circular wait need; two periods are what a re-run after a later period
needs. With pay 5, 7 or 1 and requests from 1 to 2 the cap binds in the middle
of an advance, exactly at one, and not at all; the steep rates (60 % + 60 %)
make the pay negative. What happens to two employees in the ledger is
independent, as each deduction looks at one member's advances; the theorems
below hold for any number. An instalment of 0 asks for nothing, one of −1 gives
back as much as the smallest amount, which is enough to let a younger advance be
recovered at the cap. In `ledger` the CONSTRAINT `Followed` stops following a
behaviour when the employee goes off the payroll, once payroll has been run in
both periods (a payslip is read by no handler, and the standalone recovery, which
comes in any period before and after, goes on without one), and when both
advances have an unchecked instalment; every step out of a followed state is
still checked. Two handlers are enough for every race of a pair;
three members make the shortest circle that is longer than two, and a chain
with a stand-in in the middle. In `counters` the CONSTRAINT `Followed` stops
following a behaviour once payroll has written a payslip or has changed who is
on it (the standalone recovery stands for it), and once the second session is
closed; every step out of a followed state is still checked. In `staff` it stops
at charts in which more than two members have a supervisor (chains of three and
circles of two have two) and after an admin left in a race. The roles Admin and
Employee are left out of that instance: in these handlers they may do nothing
that a Supervisor may not, and `MayDeactivate` asks for them only as the roles of
who is removed.

`requests`, `two_approvals` and `workplace` switch the deadlock check off:
requests, category names and rows are used up in the instance and the system rests. Deadlock is
checked everywhere else.

`workplace` follows one component in each behaviour: `focus` is chosen at the
start and the others rest. The components write no row in common and none
reads what another writes, so that their steps commute and every property,
which is about one component, is decided by the steps of that one; the states
are the sum of theirs and not the product. For the same reason they can share the
model values of their rows, and one symmetry set serves all of them: within a
component, rows of a kind are interchangeable (dates, times and roles are not,
and are not permuted). The bounds:

| component | bounds | why |
|---|---|---|
| racks | two racks, two names, three assignments, two cleanings, two handlers | a third assignment is what follows a race; two cleanings can find one assignment |
| attendance | one member, one place, two handlers, looks at 3 events (5 in the code), days of 4 ticks, 6 ticks, one correction | a day's in, out and in again fill what is looked at, and the second day begins; members are independent |
| dashboard | three members, two of them the looker's reports, two commits meanwhile | a scope that is neither empty nor everybody |
| purchasing | one vendor, one product, one number and none, two receipts, three bills, two clerks | two drafts and one entered by hand |
| rota | two shifts and names, one member, two dates, one task, two planners | a shift in use elsewhere and one that is not |
| documents | two slots, three documents, two uploaders | a race, and the upload after it |
| sessions | two sign-ins, three tokens, one reset, two handlers | a session that is refreshed while another begins |
| authority | every set of memberships, staff of the platform or not, one key | all roles and changes of company |

The CONSTRAINT `Followed` stops where what follows is read by nothing: at a
notice, a rating, a tag of a receipt; and after a clock-in begun before midnight
and written after it.

### Fairness

- `LockingSpec` (requests, leave): weak fairness of each handler's writes. A
  handler that has read goes on, or dies (`Die` disables its writes): node runs
  every continuation. No reads are fair: nobody has to send a request.
- `RetrySpec` (recovery): strong fairness of the statements of each
  transaction. A statement that waits for a lock is enabled only now and then
  when other requests keep coming; Postgres queues the waiters of a lock in
  order, so a waiter gets it. Aborts are not fair: `EveryRequestEnds` does not
  rely on the 15 s timeout, and holds because recoveries take the advances in
  the order of `dateGiven`. The run gives the two advances different dates.
  **With equal dates the order is open**, two recoveries may take the locks in
  opposite order, and Postgres then ends one of them; its mutant `AnyLines`
  shows just that.

### What `LockingSpec` and `RetrySpec` assume

`Spec` of `AdvanceRequests`, `Leave` and `RecoveryTx` is the code as it is.
The code takes no lock with the read of a check, so these do *not* satisfy
everything one would like. `LockingSpec` is the same program in behaviours where
no two handlers overlap inside one *request* (handlers on different requests
still overlap in every way): `OnceSpec`, `UsedMatchesApproved` hold there, and
would hold always if the read were `SELECT … FOR UPDATE`. `two_approvals` shows
the code without it. `RetrySpec` is the program in behaviours where recoveries
that overlap are of one period and no amount is edited meanwhile: the double
click and the retried request that the upsert was made for. `two_months` shows
the code without it. `ApprovedHasAdvance`, `NearestAvailableDecides` and
`OwnRequestNeedsDelegation` need no such assumption.

### Where code and comments disagree

Shown by a violation run: see `findings` in `PROJECT.json`.

1. Running payroll again for the period that closed an advance gives a payslip
   without recovery beside the period's recovery row (`payslip_rows`).
2. Two months recovered at once leave `recoveredAmount` short (`two_months`).
3. Two overlapping approvals give two advances (`two_approvals`).
4. `deleteCounter` leaves a second open session behind (`orphan_till`).

Seen while modelling, without a run of their own:

- `schema.prisma` says of `AdvanceRecovery` that recording twice is a no-op; the
  upsert overwrites the row with what is computed *now*, which may differ from
  the first time (`advances.service.ts:286-298`). The ledger properties hold
  nevertheless.
- `payroll.service.ts:149-151` says `netPayable` can never go negative. Recovery
  never makes it so (`RecoveryWithinPay`), but rates that sum to more than 100 do.
- A PATCH of an advance without a mode stores a zero or negative instalment (see
  `Ledger` above), although both DTOs ask for a positive one where they look.
  Zero suspends the recovery of the advance. A negative one *gives pay back*:
  `computeAdvanceDeductionsInTx` deducts less than nothing, so that
  `totalDeduction` and with it the payslip's `advanceRecovery` may be negative and
  `netPayable` above the pay; no row is written for it (line 284), and what it
  gives back is headroom for the younger advances behind it, whose rows may then
  add up to more than the pay. So `TypeOK` lets `advanceRecovery` be any integer,
  `RecoveryWithinPay` admits a negative one only while an open advance of the
  member has a negative request, and `OldestFirst` has two conditions: the older
  advance asks for something, and no advance in line between the two has a
  negative request. What holds all the
  same: the books, nobody overpays, closed is final, and a *payslip* takes no more
  than the pay.
- The comment on `verifySession` says "any tenant member other than whoever handled
  the till" (`counters.service.ts:617-618`); the code compares with the session's
  `membershipId`, which `reassignStaff` overwrites (`:233`), so that somebody who
  worked the till and handed it over may verify it. `VerifierIsNotLastHandler`
  says what the code does: the verifier is not the member the till was with last.
- `deactivate` says that whoever reported to the leaver is handed up
  (`employees.service.ts:499-500`). The reports it hands up are the active
  ones (`:547-550`); a report that is disabled keeps the leaver above it, and so
  does whoever is under that report, also after the report comes back. A leaver
  who reports to themselves (see the circles below) hands up to themselves.
  `LeavingKeepsChains` says that the chains keep everyone else, and that the
  leaver stays in a chain through such a report only.
- `update` of an advance checks and then writes; a recovery may commit in
  between (`advances.service.ts:116-147`). This is why `RetrySpec` keeps edits
  of an amount apart from recoveries.
- `notifications.service.ts:13-16` says notifications are never an afterthought;
  those to other users are a second transaction and are lost when the process
  stops in between (`lost` in both modules).
- A leave decision may overlap another as in 3; the days are then booked twice.
- A leave decision does not compare with the balance again, so `used` may exceed
  `allocated` when several requests were pending.
- `openSession`, `deleteCounter`, `closeSession`, `verifySession` check and
  write without a lock; `Counters` runs each alone, so its properties say
  nothing about two of them that overlap.

- Two Super Admins who deactivate each other at the same time leave none, although
  `last_admin` refuses the last one (`employees.service.ts:526-533`):
  `AdminRemains` has the exception `raced` for just this.
- `update` refuses an employee who reports to themselves
  (`employees.service.ts:437`) but not a circle of two; when one of the two
  leaves, handing up the reports makes the other their own supervisor. From
  then on `getReportSubtreeIds`, which has `UNION ALL`, never returns for
  them, nor for anybody on a circle before that.
- The plan `trial` can be removed while nobody uses it; later tenants still start
  on it and have the fallback limit. A plan can also go while a tenant is being
  moved to it: the removal counts its tenants first (`plans.service.ts:44`).
- Two overlapping assignments of one rack leave two pending, although
  `assignRack` says only one can be open (`crossed`); two overlapping uploads
  leave two live documents, although `documents.service.ts:77-80` says at most
  one row has `deletedAt = null` (`mixed`).
- `cancelAssignment` has no check of the status and cancels completed
  assignments too. A rack that was ever assigned cannot be deleted: the
  foreign key of its assignments restricts it, and the handler does not say so.
- After a check-in and a check-out, the day can be checked in again and then not
  out. Only the newest five events are looked at. A check-out begun before
  midnight and written after it stands on a day without a check-in.
- A correction adds an event and `deriveDays` takes the earliest check-in and the
  latest check-out, so that correcting a check-in to a *later* time, or a
  check-out to an earlier one, has no effect on the day.
- `dashboard.service.ts:112-117` promises a set difference for the absent; the
  summary subtracts counts that three statements read, and takes off people who
  checked in today and have left the company since. `SummaryDriftIsBounded`
  bounds what comes of it.
- A delivery whose bill is already paid opens a second draft under the same
  number; a bill created by hand is not compared with any. `markPaid` accepts a
  draft, and a `markEntered` that read the draft before then brings the paid bill
  back to pending: the exception in `PaidStaysPaid`.
- `unassign` deletes by the id it read, so that it takes off who was rostered on
  the same day meanwhile.
- A refresh that dies between revoking and issuing loses the session; two at
  once fork it. `loginWithGoogle` does not look at the tenant's status, although
  the comment at `auth.service.ts:16-19` says that logins are refused.
- `permissions.ts:3-4` says that server-side guards import the same functions;
  the guards list roles of their own. `effectivePermissions` offers platform
  staff to assign roles, which `RolesGuard` refuses them; the parameters
  `hasAttendanceCorrectionGrant` and `tenantAllowsAdminCheckIn` are never
  passed. `MapAgreesWithGuards` holds for the roles of a company. No
  handler changes a membership's role, although the map offers it.
- Exports of a verification wait five minutes in a Map of the process
  (`counters.service.ts:57`), and another process does not find them.

## 4. Proofs

Every invariant and every action property of the passing runs, and both
refinements, are stated by a theorem, for any set of members, any number of
advances, periods, requests, tills and rows, any amounts, dates, salaries and
rates, and any number of handlers. The runs show them on the instances of
section 3. Theorems are listed in `PROJECT.json` under `theorems`.

The assumptions on the constants are named in the modules that declare them and
evaluated by TLC: `LedgerAssumption` and `RecoveryTxAssumption` (counts are
naturals, amounts positive naturals, unchecked instalments integers, rates from 0
to 100), `NullAssumption` (null is no integer), `CountersAssumption`
(readings are naturals), `StaffAssumption` (finitely many members and handlers,
positive limits), `LeaveAssumption` (finitely many members, natural days),
`AttendanceAssumption` (a window and a day of at least one), `DashboardAssumption`
(finitely many members), `SessionsAssumption`, `RacksAssumption`,
`PurchasingAssumption` (finitely many rows where a new one or a count needs it),
and everywhere that `None` and `Nobody` are none of the rows they stand beside.

- **`DeductionProofs`.** The recursive functions (`PartialSums`, `Remaining`)
  are shown to satisfy their equations by an induction over an
  interval of integers written out in `IntervalInduction` and `RecursionExists`:
  the library's induction theorems take operator parameters, which the provers
  cannot instantiate. Requests may be any integers. From the equations: the
  headroom is never below zero, and only shrinks while no request is negative
  (`RemainingBounds`); a deduction is at most its request, and not negative if the
  request is not, and the total is within the pay (`DeductionBounds`); nothing for
  a later advance before an earlier one is satisfied, unless one between them has
  a negative request (`FirstInFirstOut`); when no request is negative, the total
  is the sum of them or the pay, whichever is less (`TotalIsCappedSum`).
  Overwriting one row changes a sum by the difference (`SumOfOverwrite`, on which
  all the sums below rest).
- **`LedgerProofs`.** The inductive invariant `LedgerInv` is `TypeOK`, the shape
  of rows (a free slot has no rows, an advance a positive amount),
  `RecoveredMatchesRows` and `NeverOverRecovered`. None of the last two is
  inductive alone: that a recovery cannot exceed the amount needs the recovered
  amount to be the sum of the rows, since what is asked for is `amount −
  recoveredAmount`; that a removal leaves no rows behind needs the shape. The
  core is `RecordPreserves`: recording deductions that are *deductible* (a
  positive one is at most what is outstanding, of an open advance; what is not
  positive writes no row) keeps the invariant, whatever the instalments; `ApplyPreserves`
  and `GeneratePreserves` only show that what they record is deductible. The
  action properties (`RecoveryWithinPay`, `Traceable`, `ClosedIsFinal`,
  `OldestFirst`) follow from the invariant step by step; `RecoveryWithinPay` from
  `DeductionBounds`, that no capped total exceeds the headroom; `OldestFirst` from
  `FirstInFirstOut`, as what stands between two positions of an order was given
  between the two dates.
- **`CountersProofs`.** The composition keeps what `LedgerProofs` showed of its
  part: `CountersInv` is `LedgerInv` and, of the tills, `SessionsHold` (a
  verified till is closed, `VerifierIsNotLastHandler`, `OneTillPerMember`) and
  `LinksHold` (an entry that is linked has its advance). Every step of a till
  but two is, for the ledger, one of its own handlers or a stutter; an edited
  entry and a deleted counter are new to it and rest on `LinksHold`, since what
  they do to an advance is allowed only while nothing is recovered from it.
  `VerifiedReportsAreFinal` adds up the share each entry has in a report: the
  entries of a verified till are neither added, edited nor deleted, and an
  advance removed by hand only unlinks its own. `EntriesFollowAdvances` and
  `TillsKeepRecoveries` go through the steps of an entry and its advance
  (`EntrySteps`).
- **`RecoveryTxProofs`.** Two inductive invariants. `RowsInv`, of `Spec` as it
  is: what each transaction has written fits what it holds locked (`Fits`), so
  that a row being inserted keeps its advance from going. `DriftInv`, of
  `RetrySpec`: transactions that overlap are retries of one period or leave what
  is recovered alone (`Together`), hence the sum a recovery took is still the
  one to write (`Recovering`), and an edit or removal that saw nothing
  recovered is right about it (`Changing`). `NoDrift` and `NotRecoveredTwice`
  depend on one another: a retry takes at most what is outstanding only as long
  as the recovered amount is the sum. TLC checked `DriftInv` on the instance
  of `recovery` before it was proved.
- **`AdvanceRequestsProofs`.** `RaceInv` (types, a new row is written by one
  handler, `ApprovedHasAdvance`) is kept by `Spec`, with any overlap.
  `LockInv` (types, what a handler has read still holds, one transaction per
  request) is kept by `LockingSpec`; under it every step is a step of
  `DecideOnce` or stutters, which is the refinement `LockedRowsDecideOnce`.
  `EffectOnce` and `DecisionsStand` are what the abstract specification itself
  promises, so they carry over.
- **`LeaveProofs`.** The walk up the chart stops after as many steps as there
  are members, so that circles do not matter; that the first who
  answers is the nearest who may (`NearestSupervisorDecides`), and that a member
  is not their own approver but as a stand-in (`NobodyApprovesOwnLeave`), hold of
  every chart of the right type, hence in every state of `Spec`.
  `LockedLeaveDecidesOnce` is the refinement, from a `LockInv` like that of
  advance requests. `BalancesFollowApprovals` adds `BalancesExist`: a request
  that was submitted has a balance row of its type, without which an approval
  would have nothing to increment; `BookInv` is the three together.
- **`PeopleProofs`**, staff. `LastAdminStays` needs `CountsHold`: a handler
  about to remove somebody either knows that its count is out of date, or another
  admin is still there. `HeadcountStaysBounded` needs a bound on those active
  *and* those whom a handler is about to add together: whoever reads below the
  limit leaves room for itself, and the others are at most as many as the other
  handlers. What each kind of step does is stated once (`PlanEffect`,
  `ReadStepEffect`, `AddEffect`, `LeaveEffect`) and used by both.
  `LeaversHandUp`: the chain above a member is shown to be the *least* set
  that holds its supervisor and is closed under supervisors (`AllAboveIsLeast`);
  of that set the claim about handing up is a matter of charts
  (`HandingUpKeeps`): what is closed under the old supervisors is closed under the
  new ones; and if every report in a chain was handed up, the chain without the
  leaver is closed too, so the least one does not have the leaver.
- **`PeopleProofs`**, sessions. That live tokens are of the present password
  needs to know of a reset about to commit that what it does not revoke was
  inserted under it, and marked so (`Ending`). `OneTokenPerSession` needs to count
  with the live token of a session the refresh that is about to insert one:
  exactly one of either for a session that goes on, none for one that has ended
  (`OneHolder`), and that a handler which read a token knows whose it is.
- **`WorkplaceProofs`**, one section for each component.
  - *Racks.* `RacksInv`: an assignment nobody got ahead of has seen all that is
    pending in its rack (`SeenOpen`), so that what it leaves is its own row;
    `clean` found one assignment of its rack or none (`Found`); a log stays with
    the assignment it was written to, whatever the status becomes (`LogsKept`),
    and with no other (`LogsApart`). `CompletedHasItsCleaning` is not
    inductive without the last three, as a completed assignment can be cancelled
    and completed again by a handler that found it pending.
  - *Roster.* `RotaInv`: the roster names shifts that exist, and who is about
    to unassign a day either read what is there or was overtaken; from the same
    fact, only `unassign` empties a day (`OnlyUnassignEmptiesADay`, which is proved
    and not among the runs).
  - *Purchasing.* A delivery that found no bill and was not overtaken is right
    (`NothingOwed`), so its draft is the only one owed (`OneOwing`); a clerk
    who enters a bill that is paid knows to be overtaken (`PaidIsNoticed`), from
    which `PaidStaysPaid` follows step by step.
  - *Documents.* An upload nobody got ahead of deletes all that is active
    (`SeenAll`), hence one active row in a slot (`OneActive`), hence what a link
    sends (`SentIsCurrent`).
  - *Attendance.* `AttInv`: events written by clocking lie in the past
    (`PastEvents`); a handler that will check out stands on a check-in of the day
    it looked at (`Backed`), and, unless overtaken, on a day without a check-out
    (`NoneSeen`). The last only holds while the events of that day and after fit
    into the five that are looked at (`FitsWindow`), which `OneCheckOutToday`
    says too.
  - *Dashboard.* `ReadSoFar` bounds, after each of the three reads, how far what
    was read is from what is now: one for each commit since, and in the end
    those who are here and not employed. Each commit changes one member's
    part of the four sets (`DifferInOne`).
  - *Authority.* The map last offered is that of the role in the token
    (`OfferedByToken`) as long as no new token came; the rest,
    `MapSaysWhatGuardsDo`, compares the map with the guards of the routes, role by
    role.

Only model-checked: the liveness properties `EveryRequestEnds`
(`recovery`) and `DecisionsReachRequester` (`requests`, `leave_days`), as
fairness and ENABLED are beyond the prover; and the four violation runs, which are
counterexamples. The refinement theorems are about `LockingSpec` including its
fairness, but `DecideOnce` asks for none. What a recursive function computes
is proved where an interval of integers carries the induction; induction over
other data is not within the prover's reach and not needed here.

## 5. Not modelled

Row level security, hashes, signatures, the rate limit (`ThrottlerGuard`) and
the mail of a reset: the models look at one tenant, and `Sessions` at one account
and company. The models of single components take the caller as given and
enumerate the calls that pass the guards; which calls those are is in `Authority`.
Saved comparison sheets of the counters (one insert or delete each), business
types, the display data of plans and tenants, departments, photos and the
personal data of employees, updates of a place: plain row edits nobody else
reads. Reports, lists and searches are read-only; wording, layout, PDFs, emails
and audit rows are left out.

Abstractions worth knowing: money is integer paisa, and a handful of them in
the runs; the numbers below a paisa that a request may contain are not modelled.
All leave lies in one year (the code charges the year of the first day).
Several delegation rows of one pair are one entry. Denominations of a till are
their total.

## 6. Plan

Done: 1 `Deduction`, `Ledger`, proofs; 2 `RecoveryTx`; 3 `DecideOnce`,
`AdvanceRequests`, proofs; 4 `Leave`; 5 `Counters` composed with `Ledger`;
6 `Staff`, proofs; 7 `Racks`, `Rota`, `Attendance`, `Purchasing`; 8 `Documents`,
`Sessions`, `Dashboard`, `Authority`; 9 the proofs of all of these.

Next, in order:

10. An abstract ledger (advances, what is recovered of them, nothing else) that
    `Ledger`, `Counters` and `RecoveryTx` under `RetrySpec` implement, with the
    refinement proved.
11. `Counters` with the read and the write of its handlers apart, as the modules
    of the workplace have them, and edits of an amount with the check apart from
    the write: the hazards at `counters.service.ts:622` and
    `advances.service.ts:116` have no property before that.
