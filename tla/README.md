# Verification of the UFCIM backend

TLA+ models of the room-booking backend in this repository (Hono on a Cloudflare
Worker over D1, and the Python air-quality collector that feeds it), the TLC
configurations that check them, and TLAPS proofs of what matters most. Paths below
are relative to the repository.

## How the program runs, and how it is modelled

Every request is an asynchronous handler of one Worker. Handlers share nothing but
the D1 database and hold no transaction: each `await db...` is one atomic SQL
statement (a `db.batch` is atomic as a whole), and between two of them any other
request may run. A handler therefore acts on rows that may have changed since it
read them, and one that throws or is evicted leaves its first statements behind.
This is where the system is hard, and the models are cut along it:

* a *worker* `w` serves one request; `pc[w]` names the SQL statement it runs next,
  `req[w]` what it remembers. One action is one awaited statement with the tests made
  on its result. `Submit...` actions are the first read and its early returns.
* tables are partial functions from identifiers to rows. Two things delete rows: the
  nightly cleanup (invitations, refresh tokens, rate-limit buckets, each in the module of
  its table) and the removal of a space (`SpaceRemoval`); in the other modules rows stay
  for good.
* *history variables* (`newRes`, `doubleGap`, `raced`, `misread`, `queued`, ...)
  record what happened so that a property can tell a race from a fault. No action
  reads them to decide anything.
* reads of rows that a module keeps constant are merged with the next step; audit log
  rows, wording and formatting are left out. Notifications are steps of their own;
  `Recorded` says which kinds a run of `Booking` keeps.
* a definition named `X_Something` is a plausible bug in `X`, kept beside it: the check
  swaps it in and expects a property to break.

## Components

| Component | State | Operations | What is hard | Module |
|---|---|---|---|---|
| Reservations (`services/reservation.service.ts`) | `reservations`, `recurrences` | create, createRecurring, update, cancel, cancelSeries | check-then-insert races, stale edits, a loop that swallows errors | `Booking` |
| Blockings (`services/blocking.service.ts`) | `blockings` | create (several days), remove | snapshot of conflicts read before the insert; dies half way | `Booking` |
| Schedule arithmetic (`lib/schedule.ts`), calendar (`space.service.ts`) | hours of the spaces | getAvailability, enrichSlots, update | intervals that wrap midnight | `Schedule`, `DayCalendar` |
| Space and occupancy reports (`report.service.ts`) | none | getSpaceReport, getOccupancyReport | two computations of the same figures, with rates, turns, peaks and averages | `OccupancyReport` |
| Equipment, tickets | `equipment`, `equipment_reports`, `equipment_status_history` | report, acknowledge, resolve, dismiss, updateStatus | two open tickets; a history written from a stale status | `EquipmentTickets` |
| Maintenance report (`maintenance-report.service.ts`) | none | brokenIntervals, listing, summary, series | downtime rebuilt from transitions and cut by windows | `MaintenanceReport` |
| Collector (`collector/`) and ingestion (`air-quality.service.ts`) | memory buckets, SQLite outbox, `sensor_readings` | poll, flush, send, ingestSamples, latest, history | lost, late and repeated batches, restarts, wrong clocks | `AirQuality`, `AirQualityHistory` |
| Sessions, users and their administration (`auth.service.ts`, `user-admin.service.ts`, `user.service.ts`) | `users`, `credentials`, `refresh_tokens` | login, refresh, logout, revokeChain, reset; disable, enable, delete, changeRole, revokeAll; syncFromToken; cleanup | a rotated token used twice, lost failed attempts, revocation racing a refresh, an order undone by an older token | `Sessions` |
| Invitations, requests for one (`invitation.service.ts`, `invitation-request.service.ts`, `auth.service.ts`, `lib/cleanup.ts`) | `invitations`, `invitation_requests`, `users` | create, resend, revoke, accept, reset, request, approve, reject, cleanup | two live invitations, accept against revoke, approve against reject, a DELETE against a foreign key | `Invitations` |
| Spaces (`space.service.ts`, the foreign keys of `migrations/`) | `spaces` and every table that refers to one | create, delete, against the inserts into seven tables | two counts and five deletes, each on its own | `SpaceRemoval` |
| Rate limits (`middleware/rate-limit.ts`, `lib/cleanup.ts`) | `rate_limit_buckets` | rateLimit, cleanup | statements that overtake one another, a bucket that is deleted | `RateLimit` |
| Reservation privacy (`lib/reservation-privacy.ts`) | none | what calendar, report and "Minhas Reservas" show to whom | two notions of whose a reservation is | `ReservationPrivacy` |
| Audit log, notifications (reading), departments, statistics | one table each | insert, list, mark read | little: single statements | not modelled |
| Admin pages, e-mail, Telegram, Turnstile, configuration, seeds | none of their own | pure I/O, rendering, data | | not modelled |

`PROJECT.json` lists them with the reason for each one left out.

Interaction: reservations and blockings read each other's table (`checkSlotAvailability`
against the override loop) and are one module for that reason; both read the hours of
`spaces`; the calendar and the reports read all three, and show what privacy lets
through. Tickets write the equipment's status, and the maintenance report reads what they
wrote. The collector and the ingestion talk through a network. The limiter stands before
the routes that need no session (`routes/auth.ts`, `ingest.ts`, `bootstrap.ts`). Every
table of a room hangs from `spaces` by a foreign key, which is what a removal meets.

## Modules

* **`Schedule`**: `lib/schedule.ts` as operators over half hours 0..DayEnd: well-formed
  intervals, overlap, closed hours with wrap-around, `BuildAvailability`,
  `HourlyOccupancy`, and the rights of `lib/reservation-permissions.ts`.
* **`RoomCalendar`**: the abstract calendar of a space: atomically hold a free slot,
  release, block (which releases what collides), unblock.
* **`Booking`**: both booking services, statement by statement. The statement names
  follow the code: `CheckReservations`, `CheckBlockings` (the two reads of
  `checkSlotAvailability`), `CountActive` (`enforceActiveLimit`), `InsertReservation`
  (whose only remaining guard is the index `reservations_confirmed_slot_unq`),
  `UpdateReservation`, `CancelSeriesRows`, `TakeSnapshot`, `InsertBlocking`,
  `OverrideReservation`, `NotifyOverride`, `RemoveBlocking`, `NotifyParty` (the tail of
  notices), `Die` (a failed or evicted request), `Tick` (the campus clock).
  A series whose dates match no weekday inserts a header that nothing reads; series in
  the model have at least one date. `Calendar` is the refinement mapping to
  `RoomCalendar` (what is held is what is confirmed and not under a blocking).
* **`DayCalendar`**: one space and day: what may be booked and what the calendar shows,
  while hours change under standing reservations.
* **`OccupancyReport`** (extends `DayCalendar`): `getSpaceReport` and `getOccupancyReport`
  over a period of days and several spaces: totals, rates as `Math.round` shows them,
  the series by day, hour, turn and role, peaks and averages. Each report is computed its
  own way, as in the code, so that they can be compared.
* **`ReservationPrivacy`** (extends `Schedule`): who sees whose name and contact in the
  calendar, the report and the list of one's own reservations, as functions of the row and
  the viewer. The creator of a row is its owner, as in every INSERT of the code.
* **`EquipmentTickets`**: reports on equipment and on topics of a room, the ticket's life,
  the equipment's status with its history, and the downtime of
  `maintenance-report.service.ts` (`brokenIntervals`, `overlapMs`) computed from it.
* **`MaintenanceReport`** (extends `EquipmentTickets`): the windows of the report, the
  history up to the end of one, transitions, breakdowns, repairs, who is listed, and the
  summary with its series. A campus day is `DayTicks` ticks; time broken is rounded as
  `round` does, to 1/`RowParts` of a day in the rows (a tenth in the code) and to
  1/`SeriesParts` in the series (a hundredth), and the activity test of `listEquipment`
  reads the rounded figure. The rounding is exact: what floating point does to a
  figure that lies on a half is left out.
* **`AirQuality`**: the collector's loop, its outbox, the network, and the ingestion.
  A sample is a (device, minute); its value is the set of readings it averages.
* **`AirQualityHistory`** (extends `AirQuality`): the latest reading of a device and its
  history over a range, by minute or by hour, with its aggregates told by the rows they
  average. Rows belong to the device: one that is moved takes its history along.
* **`Sessions`**: an account, its credentials and its refresh tokens. `ReadCredentials`,
  `WriteAttempts`, `InsertToken` (login); `SubmitRefresh`, `ReadUser`, `Rotate` (the batch
  of the rotation), `WalkRead` and `WalkRevoke` (`revokeChain`, one reading and one UPDATE
  per link of the chain); `WriteLogout`; `MarkDisabled`, `Sweep`, `MarkDeleted`,
  `WriteRole` (the administrator's orders); `SyncFromToken`, which runs before every
  request with what was signed into the access token (it writes name, e-mail and
  department too; of an account the model keeps the role, which rights depend on);
  `NightlyCleanup`. Time is a count of tokens that have expired; a lock ends some time.
* **`SpaceRemoval`**: the rows of all tables that hang from a space, reduced to table,
  parent and whether they are active; `CountActive` and `DeleteRows` are the two counts
  and five deletes of `SpaceService.delete`, the foreign keys guard inserts and deletes.
* **`RateLimit`**: a request arrives and takes its time (`Arrive`), counts itself in one
  upsert (`CountCall`) or is lost (`DropCall`); `CleanBuckets`, `Elapse`.
* **`Invitations`**: how people get an account. The three checks that create, request and
  approve share are steps (`CheckAccount`, `CheckRequest`, `CheckInvitation`), then the
  inserts, `MarkApproved`, `MarkRejected`, `RevokeInvitation`, `RenewToken`, and the
  acceptance: a first reading that judges (`SubmitAccept`), a second that does not
  (`ReadAgain`), and the batch (`AcceptInvitation`). An address stands for a person, a
  link for the count of renewals. The statement of `NightlyCleanup` is one DELETE that
  the foreign key of the requests can refuse.
* **`MC...`**: constants for TLC. `MCPlays`
  and `MCTicketPlays` put two instances into one run, two *plays* that say who does what, on
  which intervals, with how many rows: in the first a constraint keeps TLC to the states
  of either, in the second a behaviour chooses one at its beginning and keeps to it.
  `MCSessions` does the same with the mixes of `Sessions`, and adds the limiter.
* **`Sums`**: lemmas that several proofs share: induction over numbers and finite sets, and
  what the sums of the community modules add up to.
* **`...Proofs`**: theorems, one module per component. `DayCalendarProofs` has those about
  `OccupancyReport` and `ReservationPrivacy` too, `EquipmentTicketsProofs` those about
  `MaintenanceReport`, `SessionsProofs` the one about `RateLimit`.

## Runs

| Run | Shows | Bounds |
|---|---|---|
| `booking_serial` | One request at a time, all seven operations: `ImplementsCalendar` (refinement of the atomic calendar, where nothing is held twice or under a blocking) and `OverrideHitsConflicts`. | 1 space, 2 days, 2 disjoint intervals, 2 reservations, 1 series, 2 blockings |
| `booking_race` | Two requests at once: collisions only by races (`DoubleBookingOnlyByRace`, `UnderBlockingOnlyByRace`), `NoExactDuplicate`, `LimitOvershootBounded`, `NeverConfirmedAgain`. | `MCRace`: a student and a member of staff create, edit, cancel and block, 1 day, 2 overlapping intervals, 2 reservations, 1 blocking, one request may die. `MCQuota`: a student with limit 1 on 2 days, 3 reservations, the clock runs |
| `booking_series` | The loops (series, blocking over days), two at a time, one may die: every request ends (`RequestsEnd`), the owner of an overridden reservation is told (`OverrideIsNotified`). | 2 days, 2 reservations, 1 series, 2 blockings; fairness |
| `day_calendar` | The calendar tells the truth (`CalendarAgrees`); the two reports say the same (`ReportsAgree`) and add up (`TotalsAddUp`). | 8 half hours, 2 days, 2 spaces, 2 people, 12 closed stretches, wrapped and empty ones among them |
| `tickets` | Two open tickets, or two of one user within the window, only by a race or a reopening; the history is a chain (`HistoryTellsStatus`), the downtime exact (`DowntimeExact`), who was broken is listed and the rounded rows and series tell the same downtime within what rounding leaves (`BrokenIsListed`), reports of the past stand (`PastReportsStand`). | 2 workers, 2 users, 1 equipment, 3 days of 3 ticks up to the first of the third, reports of 1 or 2 days, rows in whole days, series in halves. `MCDesk`: 2 tickets, 1 topic, at work at ticks 2, 5, 6. `MCWorkshop`: 1 ticket, 3 history rows, 3 statuses, at work at ticks 0, 2, 6 |
| `air_quality` | No batch is larger than the backend takes (`BatchesFit`), a minute is recorded once (`MinutesCloseOnce`) and never revised (`RowsAreFinal`), nothing is lost uncounted (`NothingLostSilently`), the history of the past stands (`HistoryStands`), the outbox drains (`OutboxDrains`). | 1 device, 3 minutes, 2 readings a minute, 1 late batch, 1 crash, clock 0-2 minutes ahead until set, 1 malformed sample; fairness |
| `invitations` | Live duplicates come from races and resends (`DuplicatesExplained`), one person gets one account from one link (`OneAccountPerPerson`), an approved request keeps its invitation (`ApprovedIsInvited`), decisions change only under a stale handler (`DecisionsStand`). | 1 address, 2 workers, 3 rows of which 2 per table, 1 renewal, links live 1 tick of 2, no grace |
| `sessions` | One valid token per login (`OneValidToken`), reuse ends the session (`ReuseEndsSession`), who is disabled holds nothing (`DisabledStayOut`), roles follow the administrator (`RoleFollowsAdministrator`), parallel guesses pass the threshold by the requests that raced (`LockoutBounded`), each but for races named in the property; and `LimitHolds`. | 1 account, 2 workers, threshold 3, six mixes of 2-4 tokens and up to 2 orders; the limiter: 1 bucket of 2 requests in 3 seconds, 2 calls, 7 seconds |
| `space_removal` | A removal takes active rows only by a race (`ActiveLostOnlyByRace`), fails only for what it does not delete (`RefusedByOutsiders`), and costs nothing when equipment has records (`RecordsProtectSpace`). | 2 workers, 4 rows over 7 tables, 2 removals |
| `finding_*` | See below. | |

Why the bounds suffice: every check in the booking code looks at one slot of one space
and day, so two rows, two dates and two requests already give every way two writes can
pass each other; a third row or worker repeats a pair. Two dates are needed because the
loops treat the first date differently from the rest; the races of `MCRace` are between
slots of one date. Day length and hours are small but include a closed stretch;
`day_calendar` enumerates wrap-around and equal bounds, and its second day and space are
there so that sums and averages have two terms. In `tickets` a third ticket is again a
pair with one of the first two; three rows of history open, close and reopen an interval.
A day of three ticks has a third that rounds to no day and two thirds that round to one, as
72 minutes are the line for the rows of the code; whole days and halves are two precisions,
one finer, as tenths and hundredths are. At the ticks that a play leaves out only the clock
moves.
In `air_quality` three minutes give an open minute, a queued one and one that is too old.
Its one device is registered: an unknown one takes the same branch as a sample out of the
window. `Batch` and `MaxSamples` are 1 there, so that a batch larger than the limit shows.
In `invitations` every rule is about one address, so there is one, and two rows of a table
are a pair; the grace only delays the cleanup and is 0. In `sessions` every rule is about
one account; four tokens give a fork (two children of one token) and a child below it,
where a chain that is followed can miss something. The limiter has no state in common with
the handlers and lets a request through or not, and these are possible at any time, so its
steps and theirs are looked at apart. In `space_removal` four rows are a space, what hangs
from it, a record of that, and one that is inserted meanwhile. The invariants proved below
hold for all sizes, so for them the bounds matter only to show that the cases occur, which
is what the mutants do.

Type invariants of `Booking`, `DayCalendar`, `EquipmentTickets` and `AirQuality` are proved
and need no run; those of the other modules with a state are proved and checked.

Fairness: only in `booking_series`, `air_quality` and `finding_cleanup_blocked` (nights
go by and the cron trigger runs: `WF` of `Tick` and `NightlyCleanup`). The platform runs a
request it accepted to its end unless it dies (`WF` on a worker's next statement); the
collector's loop has no exit but a crash (`WF`), its posts time out, and a backend that is
retried forever answers some time and is heard some time (`SF`). A collector whose token
stays revoked is outside that assumption: its samples leave by age.

### Where documents and code disagree

* `finding_series_cancel`: the series UPDATE also rewrites overridden occurrences, which
  the preview (`getSeriesImpact`) does not count.
* `finding_ticket_reopened`: acknowledging a closed ticket opens it next to a newer
  one, although "any open report blocks new ones".

* `finding_cleanup_blocked`: settled invitations go after 30 days (`lib/cleanup.ts:8`); an
  approved request refers to its invitation for ever, so the one DELETE is refused each
  night from the day the first such invitation is due.

Smaller ones have no run of their own:
* a reservation inserted after a blocking took its snapshot stays confirmed under it
  (`docs/ARCHITECTURE.md:87` promises otherwise): serially there is none
  (`ImplementsCalendar`), and `UnderBlockingOnlyByRace` says what holds with races;
* an edit of the description alone writes back the date and times it read, and so can
  move a row without the check that `reservation.service.ts:260` speaks of; this is one
  of the races that `DoubleBookingOnlyByRace` names;
* an override lands on a reservation canceled meanwhile (`OverrideHitsConflicts` holds
  serially only);
* the report's operational hours treat a raw "24:00" as a bound where bookings normalise
  it (`HoursAgree`, a part of `ReportsAgree`, names the exception);
* the page of a space says that active reservations and blockings stop its removal
  (`admin/views/spaces.view.ts:231`); tickets, status history and sensors stop it too, by
  their foreign keys, and some of them after rows are already gone
  (`RefusedByOutsiders`, `RecordsProtectSpace`);
* `lib/cleanup.ts:5` keeps buckets for an hour past the end of their window, the DELETE
  compares the start; as the windows in use last a minute (ten for `bootstrap`), nothing
  depends on it (`RateLimitAssumption`);
* the dashboard takes today from UTC (`stats.service.ts:6`), against `lib/clock.ts:3`.

## Proofs

All theorems hold for every value of the constants that satisfies the named assumptions
(`ScheduleAssumption`, `BookingAssumption`, `DayAssumption`, `TicketsAssumption`,
`AirQualityAssumption`, `AirQualityHistoryAssumption`, `InvitationsAssumption`,
`SessionsAssumption`, `SpaceRemovalAssumption`, `RateLimitAssumption`,
`PrivacyAssumption`, `ReportAssumption`, `MaintenanceAssumption`): they type the constants
and say that the bounds are naturals. Beyond that,
* `ScheduleAssumption`: the default closed hours begin and end at full hours, as 22:00 and
  06:00 do;
* `BookingAssumption`: a student's limit is a number (`ACTIVE_LIMIT` of
  `reservation.service.ts`; that of the staff is Infinity); the requests under way at one
  time, and the rows, are finitely many;
* `InvitationsAssumption`, `SessionsAssumption`, `SpaceRemovalAssumption`,
  `AirQualityAssumption`: the requests under way, or the devices, are finitely many (the
  bounds on rows are counted over them); a lock needs at least one failed attempt;
* `TicketsAssumption`, `ReportAssumption`: the equipment, the spaces and the rows are
  finitely many (the reports sum over them), the days are an interval, and the rows and
  hours of the days that the model keeps constant are rows and hours that the tables can
  hold; `MaintenanceAssumption`: a report covers at least a day, a day has ticks,
  and figures are rounded to some part of a day;
* `RateLimitAssumption`: a window and the life of a request fit into the age at which the
  cleanup deletes.

TLC evaluates them in the runs. A history variable is bounded by what the proofs say of it
and by nothing else: no theorem assumes anything of a state.

Every invariant and action property that a passing run checks is a theorem. The library's
induction theorems take an operator as a parameter, which the provers cannot instantiate.
Where a proof needs induction it states it over a set instead: a set with 0 in it and with
each successor is all of Nat (`Sums!InductiveSet`, from the least number outside it), and
one with every part of a finite set whose smaller parts are in it has them all
(`FiniteDescent`). A fold of the community modules is a CHOOSE of the function that
satisfies its equations; such a function is built by this induction, and the fold is then
what the equations say.

**Booking** (`BookingProofs`).
* `TypeCorrect`: `TypeOK`. It is inductive only with `TargetsExist`: the
  types of the notices a handler sends depend on the row it remembers still existing.
* `DoubleBookingsAreRaces`, `ExactDuplicatesImpossible`, `CanceledStaysCanceled`.
  `DoubleBookingOnlyByRace` is not inductive: when a handler inserts, nothing in the
  tables says that it checked. The strengthening (`ReservationInvariant`) says what a
  check is still worth: while `pc[w]` is between check and write, every confirmed
  reservation that collides with the slot is in `newRes[w]`, the rows written since
  (`CheckedReservations`); an unmoved edit still finds the slot it read, or the row is in
  `newRes[w]` (`EditedRows`).
* `UnderBlockingsAreRaces`: on top of that, what is left of a check against the blockings
  (`CheckedBlockings`), and of the snapshot that a blocking works from: what it has still
  to cover on each date is in the snapshot or was written since (`SnapshotCovers`), which
  needs that the dates of its loop are those of its readings (`LoopDates`). A reservation
  that comes under a blocking is then in `blockGap` when either of the two is written, or
  among the overrides still to come; `Die` gives these up, and moves them into the gap.
* `LimitOvershootIsBounded`: what is bounded is more than a student's active reservations:
  also those of the past that an edit in progress may bring back (`Charged`), and the
  requests that were counted and will insert next (`Inserting`). When
  one is counted below the limit, the rows and insertions its count did not see belong to
  one each of the other requests under way; an insertion then turns one into the other
  (`ChargesBounded`). Series, whose INSERT no count precedes, are made by staff and
  professors only (`SeriesByStaff`). The facts about cardinalities are those of
  `FiniteSetTheorems`.
* `OneAtATimeIsACalendar` and `OverridesHitConflicts` have the hypothesis `Serial`: one
  worker, whose requests do not die, as in `booking_serial`. With more, neither property
  holds: two requests that race hold a slot twice, and an override lands on a reservation
  that was canceled meanwhile. Every statement is mapped
  to a step of `RoomCalendar` or a stutter. `SerialInvariant` says why the check is still
  true at the write: nothing was written meanwhile (`NothingRaced`), the days a blocking
  has left are free of blockings (`DaysAreFree`), what its snapshot names is still
  confirmed and still collides (`SnapshotIsTrue`), and the blocking that the override is
  for is there (`DayIsBlocked`).
* `ServedInTurnNothingCollides` (also under `Serial`) is what docs/ARCHITECTURE.md promises
  of a room ("Regra crítica", "Invariante de ocupação"): while no request is under way, no
  two confirmed reservations collide, none lies under an active blocking, and no two active
  blockings collide. It follows from the refinement: a `RoomCalendar` step keeps its slots
  and blocks apart (`CalendarKeepsApart`), every statement is one or a stutter, and
  `SerialInvariant` says that a confirmed row under a blocking is one still to be overridden.
* `EveryRequestRunsOut` needs no fairness and no `Serial`: the statements a request may
  still run (`StatementsLeft`) are a number, positive while it is under way; each statement
  it runs, or that throws, lowers it, and no other request or tick raises it. Dates left,
  readings left in the snapshot and notices left are all sets that only shrink, by one a
  turn. This is the part of `RequestsEnd` that is about the code; fairness adds that the
  platform goes on running what it accepted.

**Calendar, reports, privacy** (`DayCalendarProofs`).
* `DayTypeCorrect`, `CalendarIsTruthful`: for every day length and all hours, an interval is
  bookable exactly when each half hour is shown as available.
  `HoursAreTruthful`: so are the hours that the report lists, a part of `ReportsAgree`.
  `OwnIsManageable`, `NamesStayPrivate`: privacy, for every row and viewer. A student who
  does not manage the space learns no name from its calendar and report but his own. The
  list of his own reservations does name another person, the one who registered a
  reservation (`registeredBy`), when it was made on his behalf, and the one he registered
  one for; no third person, and no contact.
* `TotalsHold`, `ReportsSayTheSame`: `TotalsAddUp` and `ReportsAgree` hold of any well-typed
  state. Both reports are brought to the same counts, one for each cell of the grid of
  spaces and days (`Booked`, `Barred`, `Used`, `Opened`, `Kept`); then sums by space, by day
  and by turn are sums over the same cells (`PeriodTotals`). A day's half hours are summed
  by hour (`HoursOfDay`). Rates are rounded: that the rate of many cells lies between the
  least and the greatest of its parts, or under a peak, is shown of what is rounded, by the
  bounds that rounding to `r` puts on a fraction (`RateUnder`, `RateBetween`).

**Tickets and equipment** (`EquipmentTicketsProofs`).
* `TicketsTypeCorrect`, `DuplicateTicketsExplained`, `SpamIsARace`. The types need that the
  tickets handlers name exist (`NamedTicketsExist`). The other two have the shape of the
  booking proof: while a handler is past its check, every ticket open on its target is in
  `rivals[w]` or was reopened (`CheckedOpen`), and every recent one of its user is in
  `rivals[w]` (`CheckedRecent`); an insertion moves them into `raced`.
* `HistoryIsAChain`: `HistoryTellsStatus` is inductive as it stands: a row written from a
  reading that is not stale begins where the last row of the equipment ended
  (`AppendedRow`).
* `HistoryIsEnough`: what the downtime of the report (`DowntimeExact`) can rest on. Whether
  an equipment was broken in a past tick is what the last row stamped by then says, or,
  before its first row, what that row changed from. The invariant says besides that the
  last row of all tells the status (`LastTells`), that no row is stamped in the future
  or after the next one (`StampsInOrder`), and that a handler's reading of an equipment
  without rows is still true (`FirstReading`).
* `DowntimeIsExact`: `DowntimeExact`, on top of that. The loop of `brokenIntervals` takes
  the rows as `sortHistory` orders them; by induction over the rows taken, its intervals do
  not overlap, end before the one still open begins, and cover exactly the ticks of which
  those rows say "broken" (`LoopKeeps`). `overlapMs` counts these (`OverlapCounts`), and
  they are the ticks during which the equipment was broken (`ToldBroken`).
* `BrokenAreListed`: the time broken in a window is the number of its ticks of which the
  rows say so (`DownIs`), and the same before rounding whether summed by day or by equipment
  (`TimeAddsUp`). Rounding moves each figure by half a part at most (`RoundedIs`), which is
  all that rows and series can be apart by (`RoundedTimeAddsUp`). The series need not be
  the sum of the rows: half an hour out of service is 0.0 in the row and 0.02 in the series.
  Whoever was broken at a moment of the window is listed all the same (`DownIsListed`): if
  the time rounds to nothing, then either a row in the window tells of the change, and
  the rows that tell of a broken equipment are changes (`RowsChange`), or it is broken
  since before the window and still is, and is listed by its status.
* `PastIsSettled`, `PastReportsAreSettled`: the rows stamped up to a day that is over stay
  the same rows, unless one was stamped earlier than written, and `PastReportsStand`
  follows: an interval still open grows beyond the window only (`DaysTell`).

**Air quality** (`AirQualityProofs`).
* `NoSilentLoss` needs that the one awaited request carries exactly the batch the collector
  will delete (`AwaitedIsBatch`), and that an answer "sent" means every row of it was judged
  (`AnswerIsTrue`). `StoredRowsAreFinal` follows from the insert. `HistoryIsFinal`: what an
  ingestion adds is younger than the age up to which samples are taken, so a range further
  back keeps its rows, and the aggregates with them; keys must name minutes for that
  (`KeysTyped`).
* `MinutesAreClosedOnce`: as long as the clock is not set, what was queued is of a past
  minute and what is being read is not (`QueuedIsPast`, `BucketsAreOpen`), every copy was
  queued (`CopiesQueued`), and any two copies of a sample agree, whether in the outbox, in
  a batch, on the way or stored (`CopiesAgree`).
* `AirQualityTypeCorrect`: needs that the tables the outbox is cut from are finite.

**Invitations** (`InvitationsProofs`).
* `InvitationsTypeCorrect`: a handler may remember an invitation the cleanup has deleted;
  `NamesOK` says which ones still exist, `TokensLeft` that renewals under way fit the bound.
* `OneAccount`: the batch of `acceptInvitation` inserts the user and marks the invitation
  together, so that marks, uses and accounts count the same; inductive with the types.
* `ApprovalsName`: needs that an approval remembers an invitation for the address of its
  request (`NamesOK`); from the marking on, the foreign key keeps it.
* `DecisionsAreFinal`: a handler not known as stale has read what still holds (`Readings`).
* `DuplicatesAreRaces`: past its check, a handler knows every pending row of the address as
  a rival or as brought back by a resend (`PastChecks`).

**Sessions** (`SessionsProofs`).
* `SessionsTypeCorrect`; `RolesFollow`: an access token or handler that has seen every role
  change carries the role last ordered (`RolesKnown`).
* `DisabledAreOut`: whoever is about to insert a token knows that the account was closed
  since it read it (`MakersKnow`); between the two statements of a deletion, and after
  them, only tokens that slipped past are valid (`DeletionSwept`, `ClosedSwept`).
* `OneTokenPerLogin`: ancestors of a token are revoked (`AncestorsRevoked`), two relatives
  descend from one another or from the sides of a fork (`RelativesFork`), and who is about
  to rotate a token has seen what descends from it (`RotatorsSaw`).
* `ReuseEnds`: lineages are nested (`Nested`), a token's parent is the youngest other token
  in its lineage (`ParentsKnown`), and whatever is valid below the reused token along
  the links lies ahead of the walker (`WalkersAhead`), until he has come to the end.
* `LockoutHolds`: `LockoutBounded`. Take, for every value below the threshold, how many of
  the workers will write no more than it next: these numbers make a nondecreasing ladder
  (`Stand`). Each wrong password judged moves on to another one and none comes twice before
  the account locks or is cleared: the guesses are at most the ladders left behind
  (`GuessCounted`), and of all ladders there is a binomial coefficient (`LaddersChosen`).
* `LimiterHolds`: the requests let through fall into windows that do not overlap
  (`Spaced`), each with places 1 to the maximum (`Admissions`), as the bucket is never
  behind them (`Behind`), not even when it was deleted and a request from before that
  counts itself late; an interval as long as a window meets two windows at most.

**Removal of spaces** (`SpaceRemovalProofs`).
* `RemovalTypeCorrect`, `ActiveRowsAreLostToRaces`, `OutsidersRefuse`, `RecordsProtect`: a
  table that a removal has counted holds active rows of the space only if they are younger
  than the count (`CountsKnown`); one that it has emptied holds only younger rows
  (`PassedKnown`); and a space that lost rows has no equipment older than that
  (`StrippedKnown`).

What stays with TLC, and why:
* `RequestsEnd`, `OverrideIsNotified`, `OutboxDrains` rest on fairness, which is outside the
  prover's reach (of `RequestsEnd`, `EveryRequestRunsOut` proves that no request goes round
  for ever);
* the findings are counterexamples, which a run shows.

## Not modelled

* Validation of shapes, wording of answers, pages, mail and bots: pure functions or I/O
  that decide nothing in the tables.
* Lists with their filters and pages, and the counts of the dashboard; of the reports, the
  names and authors they list and the stamps of the timeline.
* The status columns of a sensor device, and its installation in a room: nothing reads
  them to decide anything, and devices change rooms by hand.
* The collector's drivers and configuration.
* The audit log and departments: single statements over a table nothing else writes.
* Signing and decoding of tokens, passwords and hashes: pure; what is signed into an
  access token is modelled.

## Plan

1. Done: schedule, booking, calendar, reports, tickets, maintenance, air quality with its
   history, invitations, sessions with users and roles, removal of spaces, rate limits,
   privacy; theorems for every state invariant and action property, the folds of the
   reports included, and the refinement of `RoomCalendar`.
2. An abstract session (a family of which one token is live, or none) that `Sessions`
   implements with one request at a time.
3. `RoomCalendar` under concurrency: an abstract calendar that may be double-booked exactly
   by the recorded races, implemented by any number of workers.
