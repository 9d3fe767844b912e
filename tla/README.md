# A TLA+ model of the ride simulator

This directory models the ride simulator (a Node/Express service over MySQL,
`src/src/`) in TLA+, checks it with TLC and proves the central invariants with
TLAPS. It is meant to be read beside the code: definitions keep the names of the
functions they translate, and `PROJECT.json` ("map") gives the lines of each.

## 1. The system

| Component | Code | State | Operations |
|---|---|---|---|
| Ride service, online rides | `service/ride.ts:37-69, 187-358`, `repo/ride.ts` | rows of `rides` | create and match, accept, start, complete, cancel (rider, driver) |
| Scheduled rides | `service/ride.ts:71-149` | rows of `rides` of type `scheduled` | create, sweep `processDueScheduledRides` |
| Driver presence | `service/driver.ts:24-46`, `repo/driver.ts` | rows of `drivers` | go online/offline, report a position |
| Offline pairing | `service/driver.ts:48-63`, `service/ride.ts:151-177`, `repo/offline-paring.ts` | `offline_pairings`, offline rows of `rides` | issue a code, expire old ones, record a ride with a code |
| Accounts | `service/auth.ts`, `repo/user.ts` | `users`, `drivers` | register (riders, drivers), log in (riders) |
| Driver OTP login | `utils/otp.ts`, `service/auth.ts` | none: a signed token the client keeps | send and verify a code |
| HTTP layer | `web/` | none: a signed token the client keeps | routes, JWT check, validation |
| Start and shutdown | `server.ts`, `app.ts`, `infra/` | the listening socket, timers, the connection pool | start, mount routes, stop |

How they interact. A router hands a request to a controller, which checks the
type of the user and calls a service; services share nothing in memory and meet
only in the database, through the repositories. A service method is an async
function, and each `await` is a database call. Node runs one callback at a time,
so what lies between two awaits is atomic, and at each await every other request
may run. Only one database transaction is ever opened around ride data
(`repo/ride.ts:24-35`); no statement locks, and every `UPDATE` of a ride is by
id with no condition on the row (`repo/ride.ts:82-84`).

What is hard, therefore: checks made before an await and used after it (active
ride, status, ownership, pairing code); operations of several statements that
stop in the middle (create then match, complete then pay); sweeps that overlap;
clocks read before the statements that use them; and what must eventually
happen although only the running handler remembers it; UPDATEs stamped in one
order that land in another. `PROJECT.json`
("hazards") lists each with its line.

What makes each component correct:

* online rides: milestones are reached in order; a ride is paid only after it
  was completed; the driver is the one who was assigned; only owners change a
  ride; a row moves along the documented transitions, and a rider has one active
  ride; no request and no payment is forgotten;
* scheduled rides: a due ride is matched; no ride changes hands in error;
* driver presence: no driver is assigned who has not been heard of within the
  freshness window, however the updates are delayed;
* offline pairing: the ride and the mark on its pairing go together; a code works
  up to its end and not after it; a code is good for one ride;
* accounts: one account per mobile, address and type; a driver's two rows go
  together;
* logins: the right password leads to its account; whoever acts as a driver has
  a row in `drivers`; no id acts as both types; no driver's token from an expired
  code, or from one sent to another mobile;
* start and shutdown: no handler meets half-altered tables; a graceful exit
  leaves nobody waiting; once asked to, the process ends; requests under way have
  the seconds the configuration grants them.

## 2. Modules

| Module | Models |
|---|---|
| `Domain` | enumerations, the rows of `rides` and `drivers`, riders, drivers and places |
| `DriverRepo`, `RideRepo` | each query as an operator on a row or a table |
| `DriverService` | `clock`, the `drivers` table and the presence UPDATEs on their way to it; one action per presence handler, and one for the UPDATE that lands |
| `RideService` | composes the above with the `rides` table and the suspended handlers `task`: the specification `Spec`, `FairSpec` |
| `RideProperties` | the properties of `RideService` |
| `RideLifecycle` | abstract: what a reader of a ride's row is promised |
| `RideHistory` | `RideService` with history variables: which handlers were overtaken, which rides they touched, what failures left undone, when drivers were last heard; the properties that need them |
| `RideProofs` | the inductive invariant, the theorems about any interleaving, the lemmas on what a step writes |
| `RideOverlapProofs` | how many active rides overlapping handlers can give a rider |
| `RideHistoryProofs` | the theorems about `RideHistory` |
| `OfflineParing` | pairing codes and offline rides, with their properties |
| `ParingLifecycle` | abstract: what a pairing is worth |
| `Accounts` | the two registrations, each statement of the driver's transaction a step |
| `Logins` | the rider's login, the driver's OTP login and the checks of the JWT middleware, composed with `Accounts` |
| `ServerLifecycle` | the process: start of the database, connections and their requests, signals, exits |
| `ParingProofs`, `AccountsProofs`, `LoginsProofs`, `ServerProofs` | the inductive invariants and theorems of these modules |
| `MCRide`, `MCRideHistory`, `MCParing`, `MCAccounts`, `MCServer` | instances for TLC |

`Domain` <- `DriverRepo` <- `DriverService` <- `RideService` <- `RideProperties`
<- `RideProofs`, `RideHistory`, `MCRide` by EXTENDS, with `RideRepo` joining at
`RideService`; `RideProofs` <- `RideOverlapProofs` <- `RideHistoryProofs`, which
takes `RideHistory` as well, as does `MCRideHistory`.
`RideHistory` instantiates `RideLifecycle` with a refinement mapping that
forgets all but four columns, and `OfflineParing` instantiates `ParingLifecycle` with
one that keeps driver and status of a pairing, driver and pairing of a ride.
`OfflineParing` extends `Domain` only: an offline
ride is born completed and paid, no query of another component selects it
(`findActiveRideByRider` and `findDueScheduled` ask for other statuses,
`loadOnlineRideOrThrow` for another type), so the two specifications do not
interact. `Logins` extends `Accounts`: its steps leave the tables alone, so it
implements `Accounts` (a theorem). Neither is composed with the rides, which are
keyed by user ids that no code changes or deletes. What it promises the rides are
`DriverNeverMissing` and `NobodyIsBoth`: `DriverService` takes for granted that a
driver's UPDATE finds its row, and `DomainAssumption` that riders and drivers have
different ids. `ServerLifecycle` stands alone: its handlers are sequences of
statements, and what becomes of a ride when one is cut off between two statements
is `Abort` of `RideService`, `OfflineParing` and `Accounts`.

How state and actions correspond to the code:

* **A task is a suspended handler.** `task[t].pc` names the database call it
  waits for, the other fields are the locals it keeps across the await. The step
  that resumes a task runs that statement and the code up to the next await.
  A request enters `task` after its first read and checks, which are one step
  with its arrival, except where an earlier await lets time pass (the scheduled
  check, the pairing lookup). A request that is rejected changes nothing and has
  no action.
* **The clock** is read where the code reads it: `freshSince`
  (`service/ride.ts:192`) is a step before the SELECT it bounds, `now` of
  `generateOfflineParing` is kept in the task, and a presence UPDATE carries the
  stamp of the moment it was sent (`repo/driver.ts:17`, `:31`) while it is
  `pending`. Pending UPDATEs land in any order (`land`) or not at all (`lose`), so
  `lastPingAt` may move backwards. One tick is the finest difference
  the DATETIME columns keep; `new Date()` is finer, which is why a ride may be
  scheduled for the current tick (`service/ride.ts:75`).
* **Ties.** A query without an order, or whose order ties, returns any of its
  rows (nearest driver, newest pairing).
* **The sweep** starts one match per ride it found, all at once, as
  `Promise.allSettled` does, and nothing stops the next sweep from starting.
  Sweeps take free tasks; a sweep that finds more rides than free tasks starts
  fewer, which is also what a sweep with an older clock finds.
* **Failures** (`Faults`). `Abort` drops a suspended handler: a rejected database
  call, or the process dying with all of them. What was written stays written,
  except in a transaction: the ride `insertRide` has inserted is seen by nobody
  until `createOffline` has marked the pairing and committed both.
* **Auxiliary state**, which no guard reads: `trail` (every status a ride has
  had), `locatedAt` (when a position was reported), `paring` of an offline ride,
  the history variables of `RideHistory`,
  in `Logins` `acted` (who got past the checks of a route), `owner` and `given`
  (what the client typed), and `otp` of an access token.
* **Logins.** A client types identifiers and the password of some account, or of
  none. Passwords are not values: the comparison succeeds or fails, except that an
  account's own password always matches and a made-up one never does; that of
  another account may match as well. A login that finds no account ends at once, any other
  waits in `compare`, the one await after the SELECT. Tokens are what is signed
  in them; `otps` only grows, because nothing takes a token back.
* **The process.** A job, the handler on a connection or the start of the
  database, is in JavaScript (`js`) or holds a pooled connection for a statement
  (`sql`); a transaction counts as one statement. A request that needs no
  statement, 404 before the routes are mounted included, leaves no trace.
  `closed` is the callback of `server.close()`, which runs when the last
  connection is gone; `exitGracefully` the one of `sequelize.close()`, which
  refuses statements from its start and waits for those under way. An exit stops
  everything: no action is enabled after it.
* **Data left out**: price, ride code, drop-off, names, and the arithmetic of the
  Haversine formula. `Distance` is any function between places; of it the code
  uses the radius test and the order only. Coordinates for which the formula
  gives no number make no candidate, like a place out of the radius.

## 3. Passing runs

| Run | Bounds | What it shows |
|---|---|---|
| `races` | 3 tasks, 2 riders, 2 drivers, 1 place, 1 presence call, 1 ride, clock 0..1, failures, sweeps | what survives every interleaving of unguarded UPDATEs |
| `overtaken` | 2 tasks, 1 rider, 1 driver, 1 place, 1 presence call, 2 rides, clock 0, failures, sweeps | only overtaken handlers leave the lifecycle or give a rider a second active ride; only what failed is forgotten |
| `served` | 2 tasks, 1 rider, 1 driver, 2 presence calls, 1 ride, clock 0..1, failures, sweeps, fairness | a match takes only drivers heard of in time, whatever order their UPDATEs land in; scheduled rides whose match failed recover |
| `parings` | 3 tasks, 2 drivers, 2 codes, 2 pairings, clock 0..2, expiry 1, failures | the tables follow `ParingLifecycle`; a code is reused by overlapping requests only; expiry and lookup agree |
| `accounts` | 2 tasks, 1 client, 2 mobiles, 1 address, ids up to 3, clock 0..1, expiries 1, failures | shared identifiers come from overlaps only; no half-registered driver; every token leads to the account it was proved for |
| `server` | 2 connections, 3 statements at most, clock 0..3, timer 1, fairness | the process starts and ends as it should |

* `races`. `MilestonesInOrder`, `PaidOnlyAfterCompletion`, `DriverIffAssigned`,
  `OwnershipHoldsAtWrite`, `OnlineDriverFixed`: racing handlers may undo a
  status, but none of them skips a milestone, pays too early, or acts for someone
  who does not own the ride. The reason is that an online ride has one match, so
  its driver is written once. `ScheduledRideIsNeverServed`: after
  the sweep no request applies to a scheduled ride, because each insists on an
  online one (`service/ride.ts:258`). Two handlers are enough for any one of
  these races and the third lets one overtake both; a handler touches one ride,
  so one ride is enough; a second driver is there for a driver to be replaced,
  a second rider to ask for what is not hers.
* `overtaken` explores `HistorySpec`. A handler is *overtaken* when, while it waits,
  another handler's write gives another status to the ride it has read, or inserts a
  ride that its check did not find. The code does not notice, and `RideHistory` says
  that this is all that can go wrong, with nothing assumed about who overlaps and with
  failures at every await. `OnlyOvertakenLeaveLifecycle` reads `README.md:58-60` as a
  state machine per row (`RideLifecycle`, plus cancellation of a ride that found no
  driver, which `riderCancelRide` allows): every change of a row is one of its
  transitions, or the write of an overtaken handler. So a request that comes after a
  ride has ended cannot revive it, one sweep replaces the driver of another only when
  both had found the ride before either wrote, and a cancelled ride is paid only if the cancellation came
  between the two UPDATEs. `OneActiveUnlessRaced` says the same of a rider's
  second active ride, and `PaidIsCompletedUnlessRaced` of a ride that ends paid and
  cancelled; both exempt the rides that an overtaken handler wrote (`raced`), and no
  others. Section 4 shows that the exemptions are needed: its runs `two_active` and
  `revived` are what overtaken handlers do.
  `RequestedIsBeingMatched` and `UnpaidIsBeingPaid` are about failures: the
  handler is the only memory of the work left, so an online ride stays requested
  without a matcher exactly when its match failed, and a completed ride is left unpaid
  only when its second UPDATE failed (`dropped`). Two rides of one rider are what the
  check for an active ride is about, and two handlers overtake each other; the time
  that passes plays no part here, so the clock stands still.
* `served`. `AssignedDriverHeard`: two UPDATEs of a driver that land in the wrong
  order, late or never leave a row that is older than what the driver sent or says
  online of one who left, but never one that is fresher: a driver who has sent
  nothing since the window began is not assigned. (Whether the position is as fresh is
  another matter: section 4.) Two calls are what a reordering takes, and clock 1 with a
  window of 0 lets pings be old. `DueRideRetried`: a sweep's match that fails leaves
  its ride due, and once failures cease a later sweep finds it; without any failure it
  says that every due ride is processed.
* `parings`. `UsedIffRecorded`: between the INSERT and the COMMIT others run and the
  process may die, and `expireOld` may mark the pairing. `ReuseNeedsOverlap`: a code that was used is found no more.
  `RequestedInTime`: the transaction may turn an expired pairing into a used one, for
  a request that came in time only. `ExpiredIsOver` and `UsableIsFound`: the `<` of
  `expireOld` and the `>=` of the lookup meet, though sweeps use old clocks.
  `FollowsLifecycle` reads `README.md:76-82` as a state machine: a pairing is
  issued, may expire, and is spent with its driver, on no more rides than handlers can
  overlap. Two pairings are what a collision takes, three handlers let two riders meet
  an issue, and clock 2 lies beyond the expiry of the first pairing.
* `accounts`. `DuplicatesNeedOverlap`: nothing but the SELECT keeps two accounts
  from sharing a mobile or an address (there is no unique key), so overlapping
  registrations can; there are never more of them than handlers, and with one
  handler one at most. Two mobiles and an address let accounts share one and
  differ in the other. `DriverUsersHaveRow`: an uncommitted row stays in its task,
  so the property depends on both INSERTs being made in the transaction.
  `RefusedOnlyIfShared` is the price of such duplicates, and says that nothing else
  costs a rider the login; `DriverNeverMissing` and `NobodyIsBoth` need a login
  beside a registration; `OtpProvedInTime` needs the clock to pass an expiry,
  which 0..1 does. Two handlers overlap, one client logs in beside them, and three
  ids are two duplicates and another account; section 6 proves all of these
  properties for any number of each.
* `server`. `OnlyForceCutsOff`: a client waits for its answer until it has it or
  leaves, except when the timer ends; in particular the pool is never closed under
  a handler somebody waits for. `NoHandlerBeforeSchema`: the tables may be half
  altered while the server listens, but no route leads to them. `ShutdownEnds`
  even when a handler hangs or a client stays; `RoutesOrExit` even when the
  database is down. Two connections let one hold the server open for requests of
  the other; with three statements a handler has one before, one at and one after
  the closing of the pool; clock 3 leaves room for a second signal.

`CHECK_DEADLOCK FALSE` everywhere: with the clock at its bound, every ride ended
and no worker, the bounded system has nothing left to do; the code does not stop
there.

Bounds on the model only: `MaxTime`, `MaxRides`, `MaxParings`, `MaxUsers`,
`MaxStatements`, `Tasks`, `Calls`, `Visitors` and `Conns`.
Symmetry is used in `races`, `overtaken`, `parings` and `accounts`, which check no
liveness, over tasks, presence calls, users, clients, codes, mobiles and addresses;
places are not symmetric.

## 4. Violation runs

Each checks what a document, comment or message of the repository says, and TLC
shows an execution of the code that breaks it.

| Run | Property | What happens |
|---|---|---|
| `stale_location` | `MatchedOnLiveLocation` (`README.md:57`) | toggling the status refreshes `lastPingAt`, so an old position passes as live |
| `two_active` | `OneActiveRidePerRider` (`service/ride.ts:41`) | two overlapping requests both pass the check for an active ride |
| `revived` | `EndedIsFinal` (`README.md:59-60`) | a match or a transition writes over a cancellation |
| `no_worker` | `DueRideProcessed` (`README.md:73`) | nothing in `src/` calls the sweep (`Worker = FALSE`) |
| `code_used_twice` | `ParingUsedOnce` (`README.md:79`) | two overlapping requests record a ride with one code |
| `server_forced` | `ForcedExitWaits` (`config/config.ts:46`, `docker-compose.yml:22`) | `setTimeout` gets a number of seconds and counts milliseconds, so a request under way is cut off almost at once |

None needs a failure: `Faults = FALSE` in the first five, and in the sixth the
counterexample has none. There `Second = 2` stands for the 1000 units of
`setTimeout` in a second: any factor above 1 shows the difference.

## 5. Fairness

`Fairness` has weak fairness of `Resume(t)` for each task: MySQL answers each call
and the event loop runs each callback, so a suspended handler goes on. It says
nothing of requests, pings or the clock: no user has to act. The sweep has strong
fairness, when there is a worker: a periodic job comes round again and again, and
at some of those times a connection is free. With `Worker = FALSE`, which is how
`src/` is wired, the sweep is never enabled and the conjunct is vacuous; the run
`no_worker` keeps that case apart from `served`. Presence UPDATEs need no fairness:
nothing has to land.

`ServerLifecycle` has weak fairness of `Tick` and `forceExit` (time passes, and the
event loop runs a timer that has ended) and of the statements of the start of the
database, which MySQL answers or refuses, or which time out. No handler has to
end, no client has to leave, and no signal has to come.

## 6. Proofs

`RideProofs` proves, for any sets of riders, drivers, places and tasks, any
bounds, windows and distances, with failures or not and with a worker or not, that
`Spec` keeps `TypeOK`, `MilestonesInOrder`, `PaidOnlyAfterCompletion`,
`DriverIffAssigned`, `OwnershipHoldsAtWrite` and
`ScheduledRideIsNeverServed`, and that its steps satisfy `OnlineDriverFixed`.
The assumptions are `DomainAssumption` (riders and drivers are
different ids, and NULL is neither an id, a place nor a number),
`DriverServiceAssumption` and `RideServiceAssumption` (types of the constants).

No property is inductive by itself, because an UPDATE does not look at the row it
changes. `Inv` adds what a handler may rely on when it resumes:

* `TaskInv`: a match of an online ride finds it without a driver; a status to be
  written has its preceding milestone in the ride's trail, and its actor is the
  rider or the driver of the row;
* `RowInv`: a row agrees with its trail;
* `OneMatcher`: at most one handler matches an online ride. This is the heart of
  the argument: it is why the driver of an online ride is written once, and so why
  an ownership check cannot grow stale.

The proof has one lemma per action, over two that do the common work:
`SuspendKeepsInv` for steps that change only a handler, and one for a write to a
ride. `trail` only grows, which is why a milestone once checked is there at the
write although the status may be gone.

`RideOverlapProofs` proves `ActiveNeedsOverlap` of `Spec`, with no hypothesis on
overlap. The count of active rides is not inductive, because a late write may make a
cancelled ride active again. `OverlapInv` therefore counts the rides that are active or
that a suspended handler may make active (`Open`) together with the handlers about to
insert one (`Waiting`). A check that finds no active ride finds that each open ride has
a handler of its own, an injection into the handlers that insert nothing; an INSERT
turns a waiting handler into an open ride; and no other step opens one, because a
handler becomes a threat to a ride only by finding it active (`ActivatorsFindActive`).
No run checks this bound: it is a theorem only, and section 4 shows that two handlers
reach it.

`RideHistoryProofs` proves the six safety properties of `RideHistory`, for any
constants, from `HistorySpec` and with nothing assumed about overlaps or failures. A
step of `HistorySpec` is one of `Spec`, so `Inv` holds (`HistoryKeepsInv`). Three
arguments stand on it:

* Overtaken handlers. `HistoryInv` adds to `Inv` that what a handler has checked is
  still so unless it was overtaken: the status it will overwrite (`Checked`), the
  absence of active rides of its rider and time (`Clear`). The step that makes such a
  check false is the step that puts the handler into `overtaken`, and only the handler's
  own step takes it out (`StepKeepsChecked`, `StepKeepsClear`). So the write of
  any other handler is a transition of `RideLifecycle`: `create` a `Request`, `assign` a
  `Match`, `update` a `Move`, `pay` a `Pay`; every other step leaves the ledger alone. An
  overtaken handler's ride goes to `raced`, and the ride of another is the only active
  one outside it.
* Failures. `Accounted` says that a ride in `dropped` for its match has no matcher,
  and that a requested online ride has one or is in `dropped`. `OneMatcher` is what
  makes the equivalence exact: a match that failed was the only one there could be.
  `StepKeepsPaying` follows a completion from one of its UPDATEs to the other.
* Late updates. `Sent` says that the stamps in the table, and those of the UPDATEs on
  their way, are not later than the last request of the driver they belong to. Landing
  in any order keeps that, and so `AssignedDriverHeard` follows from the query's test on
  `lastPingAt`, although that column may move backwards.

`AccountsProofs` proves `TypeOK`, `DriverUsersHaveRow` and `DuplicatesNeedOverlap`
for any numbers, addresses and handlers, from `AccountsAssumption` (numbers and
addresses are different values, the handlers are finite). Its invariant says that
an id a transaction has received belongs to no committed user and to no other
transaction, so the two rows cannot end up with two users; the count is then kept
by three lemmas: a registration starts only when no account has its identifiers,
one that succeeds moves from the handlers to the accounts, one that fails only
leaves.

`LoginsProofs` proves first that a step of `Logins` is a step of `Accounts` or
leaves its variables alone (`LoginsImplementAccounts`), so the invariant of
`AccountsProofs` holds in `Logins` as well. On top of it `LoginInv` says what is
known of each client: the accounts it refers to are in `users`, a row being
compared has an identifier that was typed, and a token has the type of its
account. Accounts are never deleted, which keeps all this true while
registrations go on. From both follow `LoginTypeOK`, `RefusedOnlyIfShared`,
`DriverNeverMissing`, `NobodyIsBoth` (a user's type is decided by the row in
`drivers`) and `OtpProvedInTime`. `LoginsAssumption` adds that NULL is no
identifier and the expiries are numbers.

`ParingProofs` proves `TypeOK`, `UsedIffRecorded`, `ExpiredIsOver`, `RequestedInTime`,
`UsableIsFound` and `ReuseNeedsOverlap`, from `DomainAssumption` and
`OfflineParingAssumption` (finite `Tasks`). Its invariant adds that a handler's
clock is not ahead of the wall clock, which is why an old handler expires nothing
too early, that a pairing was not issued in the future, and that the pairing a handler
has found is a row. `UsableIsFound` needs besides that, of the pairings a lookup may
find, one is the newest (`NewestExists`): the spans of time since they were issued are
finite sets, which strict inclusion orders well. For the count of
uses: only a lookup makes a handler hold a pairing (`OnlyLookupHolds`), it finds
none that was used, and a COMMIT turns a holder into a use. In the refinement of
`ParingLifecycle`, `create` is an `Issue`, `expireOld` an `Expire` and `createOffline` a
`Spend`, which has a use left because the handler that records is one of the holders
that `ReuseNeedsOverlap` counts; `insertRide`, whose row nobody sees, is a stutter.

`ServerProofs` proves `TypeOK`, `OnlyForceCutsOff` and `NoHandlerBeforeSchema`, from
`ServerAssumption`. Its invariant says that a closed pool means a server that has
stopped listening and no open connection, and that handlers run only beside
mounted routes and the start only before them.

`RideServiceAssumption`, like the assumptions of the other modules, includes that the
handlers suspended at one time are finitely many.

Every invariant and every action property that a passing run checks is a theorem. Only
model-checked is liveness (`DueRideRetried`, `ShutdownEnds`, `RoutesOrExit`): no prover
installed reasons about fairness.

## 7. Not modelled

* Controllers: they validate a request and forward it with the id of its token,
  and keep no state. What validation leaves possible is the range of each
  request's arguments; `Given` of `Logins` is the one rule a property depends on.
* The middleware's answers (401, 403) and the error handler: a request that is
  refused changes nothing.
* Fares and the Haversine formula: floating point. Configuration, error classes,
  phone normalisation, signatures: pure functions of their arguments.
* The answers of requests: the SELECT after the last write, and the count the
  sweep returns, which counts rides left with `no_driver` too, since
  `assignNearestDriver` returns their row as well (`service/ride.ts:129`; the test
  at `tests/unit/service/ride.service.spec.ts:230` calls it the "count of
  successfully assigned due rides").
* "Driver not found" (`service/driver.ts:28`) beyond `DriverNeverMissing`: the MySQL
  driver counts the rows an UPDATE matches, so one that writes equal values finds
  its driver too.
* The exit code: a signal during the start may be answered with 0 or, when its
  failure comes first, with 1.
* The number of connections in the pool: a job waits for one, or fails, at any
  time (`reject`).
* Reuse of one driver for several rides is modelled (nothing marks a driver busy)
  but no property forbids it, because neither code nor documents promise it.

## 8. Plan

1. The matching pipeline of `service/ride.ts:204-224` (map, filter, sort, first) as
   operators on a sequence, and that its result is any element of `Nearest`.
2. An abstract specification of registration (one account per identifier), and that
   `Accounts` leaves it only by registrations whose check was overtaken, as
   `RideHistory` does for rides.
