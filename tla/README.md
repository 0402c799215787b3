# A TLA+ model of the Veltrixair admin panel backend

The backend (NestJS and TypeORM over PostgreSQL, `src/src/`) serves three brands, called
*sites* in the code: Veltrixair IT (101), the crane business Industries (102) and Privacy
(103). Visitors submit forms; staff work on what was submitted from one dashboard per site.

Almost every handler has the same shape: read a row, decide on what was read, `await`
something, write. PostgreSQL runs at READ COMMITTED, rows carry no version, and only a few
rules are backed by a constraint. What can go wrong is therefore rarely in one handler; it
is in two of them that overlap. These modules model the handlers at that grain and check, or
prove, what still holds.

## Inventory

| component | state | operations that change it | module |
|---|---|---|---|
| discovery bookings | `discovery_bookings`, their events; letters, the bell | book, cancelByToken, setStatus, assign, reschedule, addNote | `Booking` over `HourBoard` |
| architect roster and slots | architects, availability rules, blackouts, slots | update, deactivate, replaceAvailability, createBlackout, removeBlackout, generate | `Roster`; with the bookings, `RosteredSessions` |
| sign-in sessions | `refresh_tokens`, the password and activity of `admins` | login, refresh, logout, logoutEverywhere, changePassword, purge; staff's setPassword, resetPassword, deactivate | `Sessions` over `SessionBook` |
| staff and badges | `admins`, `admin_roles` | create, update, grantRole, revokeRole, replaceRoles | `Staff` |
| role permission overrides | overrides per site and role | setRolePermissions, resetRolePermissions | `RoleOverrides` |
| crane site visits, engineers | visits with status, date, engineer and first-response time; the roster | submit, setStatus, schedule, assign, addNote; create, update, deactivate | `Visits` |
| files | `files` rows, stored objects | upload, remove, purgeExpired | `FileStore` |
| crane quote requests | requests, attachments | submit; setStatus, assign | `Intake`, `Cases` |
| job applications (IT, crane) | applications, CV and certificate files | submit; withdraw, setStatus, assign, replaceCv | `Intake`, `Cases` |
| contact enquiries (IT, Privacy) | enquiries, response clock | submit, updateStatus, assign | `Cases` |
| knode leads and demo requests | captures keyed by the client; statuses and owners; notified marks | capture, submit; updateStatus, assign; markNotified, setNotified | `DeckCapture` over `LeadLedger`, `Cases`, `NoticeQueue` |
| job postings, articles | status and first publication | create, update, setStatus, remove | `PostingDesk` |
| employees and documents | records and their accounts; a document's status and file | create, update, remove, the account; upsertDocument, detachDocument | `Register`, `DocumentSlots` |
| business days | - | addBusinessDays, zonedTimeToUtc | `BusinessDays` |
| reference numbers | a sequence | next | within `DeckCapture` |
| notifications, mail | notifications and reads; mail keeps nothing | raise, markRead, markAllRead; send | not modelled |
| spam check, master data, site context | none; code tables; none | - | not modelled |
| configuration, migrations, scripts | - | - | only the constraints the models need |

How they interact. Every panel request passes `PermissionsGuard`, which looks the caller's
badge up (`admin_roles`), so *Staff* decides what *Sessions* and every desk may do. Desks
call `mail.send` and `notifications.raise` after their commit; both swallow their errors, so
neither can fail the request. Submissions with attachments call *files* before their
transaction. Deactivating an account and setting a password revoke rows that belong to the
sessions. The roster looks for sessions before it lets an architect go, and a session is given
only to an architect on it. Nothing else is shared: a desk's handlers meet only in the
database.

What is hard, and what makes each component correct:

- **Bookings.** Two people want one hour, and a cancelled booking may come back to an hour
  that was given away: only a partial unique index settles it. `assign`, `setStatus` and
  `reschedule` all write from a stale row. Correct when an hour has one session, a BOOKED
  session has an architect, the timeline explains the row, and the attendee knows the hour.
- **Sessions.** A token is read, a successor is stored and the token is retired, in three
  statements and no transaction. Correct when a session stays in the scope it was opened in,
  and when what was ended (by logout, by reuse, by a new password, by deactivation) is over.
- **Staff.** Checks are queries of their own, ahead of the write. Correct when a dashboard
  always has a super admin, when authority has a source, when the protected root
  accounts stand, and when no account is left without a badge.
- **Site visits.** A visit is read, judged and written apart, its event later still; the
  roster is checked against visits that others are writing. Correct when an answered visit
  has a stopped clock, a scheduled one a date, the timeline tells what the row promises, a
  cancellation nobody overlapped is final, and an engineer with visits ahead stays.
- **Roster.** A handler is a sequence of statements without a transaction. Correct when a
  free slot belongs to somebody who is there to keep it, and nobody leaves a session behind.
- **Forms with files.** Uploads come first, then a transaction, then a notification, and the
  clean-up is written by hand for each form. Correct when what was accepted keeps its files
  and no file is forgotten.
- **Desks.** A row is read and written back, by column or whole. Correct when a clock that
  should have stopped has, a withdrawal stands, and a handler changes the column it is for and
  undoes nobody else's.
- **Deck and notices.** A client repeats itself, a batch meets another batch. Correct when a
  record is one lead, and whoever waits is told once.
- **Postings, documents, records, overrides.** Two columns, or two tables, that must agree
  although they are written apart: a status and a date, a sign-off and a file, a record and an
  account, the rows of one request.

`PROJECT.json` lists the hazards behind these, each at its line, with the properties that are
about it.

## Conventions

A handler that awaits between its read and its write is a process: a record `req[r]` with
what it read and where it stands (`pc`, or the operation alone where one write is left). One
SQL statement, or one transaction, is one step. Any other request, and where it matters time
and a crash, may run between two steps. Reads done back to back at the start of a handler,
before the first write, are one step together with the arrival of the request; this keeps
the window between the checks and the write, which is the one that matters, and hides the
smaller windows among the checks.

Names, notes and times carry only what the properties distinguish: a time of day is an hour
number, a password is its ordinal, a letter is its kind and what it names. Each module begins
with the code it stands for; `PROJECT.json` maps each definition to its lines. A definition
whose comment begins with *Mutant* is a wrong variant of the definition below it: put in its
place it must break a property, which shows that the property depends on that code.

## Modules

### `HourBoard` and `Booking`: discovery/booking.service.ts

`HourBoard` is the abstract specification: a session takes a free hour, moves to a free hour
or gives its hour up, each in one step. `Booking` is the service. `booking[b]` is the row
(status, hour, architect, whether `cancelledAt` is set), `timeline[b]` its events in commit
order, `letter[b]` what its attendee was sent, `bell` what the panel announced, `now` the
clock. Each operation is an arrival (`Book`, `CancelByToken`, `SetStatus`, `Assign`,
`Reschedule`: guards on the row as read) and one action per later await (`BookWrite`,
`BookLetter`, `BookBell`, `AssignWrite`, `AssignEvent`, `AssignLetter`, ...). `IndexAllows`
is the partial unique index and guards every write of a row. `Crash` drops what is in flight.
`asked` is a history variable: the hour the visitor first asked for.

### `SessionBook` and `Sessions`: auth/auth.service.ts, with auth/staff.service.ts on sessions

`SessionBook` is the abstract specification: a session belongs to one account, one scope and
one password check, may end, may be forgotten, and never begins again. A *session* is what the
code calls a family: `SessionOf(f)` reads it off any of the family's rows (they agree), and it
is over when no row is usable and no refresh of one is under way (`Ended`).

`account[a]` is the password in force, the last one chosen (history), whether its hash is of
an old cost and whether the account is active; `badge[a]` the scopes it may enter; `token[t]`
a row of `refresh_tokens` with its family, its owner, its scope, the password check it goes
back to (`era`, history) and its number of successors (`heirs`, history). Every statement of
login, refresh and the operations that end sessions is a step. Purged rows and unused family
ids are reused, so that a finite instance runs for ever. Operations of one statement
(`Logout`, `LogoutEverywhere`, `Reactivate`, `ChangeBadge`) are atomic.

The access token, a signed 15-minute statement that no table knows of, is not modelled: what
these properties say of a session begins to hold for its requests when the last access token
has run out.

### `Staff`: auth/staff.service.ts

`account[a]` is absent, active or inactive; `badge[a][s][x]` the rows of `admin_roles` for an
account, a dashboard and a role: whether one is live, how many there have been (only the last
may be live), and who assigned the last. The arrivals (`GrantRole`, `RevokeRole`,
`ReplaceRoles`, `Rename`, `Activate`, `Deactivate`, `Create`) run all of the handler's checks,
named as in the code's private methods (`MayTouch` = refuseProtected, `MayAppoint` =
requireProtectedToGrantSuperAdmin, `WhollyWithin`, `LastSuperAdmin`); `WriteBadges`,
`SaveAccount` and `CreateWrite` write. `SaveAccount` writes the activity the handler *read*,
because `repository.save(entity)` stores whatever in the entity differs from the row.
`Managers`, the roles that grant the feature, is a constant; the initial state is the one
migration ProtectRootAdmins produces: who holds SUPER_ADMIN everywhere is protected.

### `Visits`: crane/site-visit/crane-site-visit.service.ts and crane-engineer.service.ts

`visit[v]` is the row (status, date, engineer, first response; dates are days, 0 is null),
`timeline[v]` the set of what its events say, `engineer[e]` the roster, `today` the clock.
`Submit` stores a visit with its first event; `SetStatus`, `Schedule` and `Assign` are
arrivals that keep the row they read, each followed by a `...Write` and an `...Event`. Writes
are column updates, so a status set from a stale row does not undo a date. `firstRespondedAt`
is written only by a handler that read it empty (`Responded`). `schedule` takes any date, the
past included; `findById` does not ask whether an engineer is active, and neither does the
model. `DeactivateEngineer` counts `Upcoming` visits and `DeactivateWrite` acts on that
count; `UpdateEngineer` counts nothing. An event may be lost to a stop of the
server between a row and its event; that is not modelled, and `PromisesAreOnRecord` is about
requests that end.

### `RosteredSessions`: `Booking` and `Roster` together

`assign` takes only architects that are active; `deactivate` and `createBlackout` look for
confirmed sessions first (`Conflicts`), joined to the slot each session has. `book` stores
none (`SlotOf`), so they find none; that is why `Roster` by itself has no such guards.

### The desks

Ten modules about tables that nothing else writes. Each is a specification of its own, with
its own invariant, and `MCDesks` instantiates them together: a behaviour of `DesksSpec` is
about one of them (`desk`), the others rest in an initial state, so that the state space is
the sum of theirs and not the product.

- `FileStore` and `Intake`. A file is an object in the bucket and a row; `PutObject`,
  `SaveRow`, `RemoveObject` and `RemoveRow` are the calls that make and unmake it, each of
  which may fail, and the server may stop between two. `Intake` is the submit handler of the
  three forms that bring files: upload by upload, the transaction, the notification, and
  what each `catch` cleans up, which differs: the quote form and the IT form remove the files
  whatever failed, the event after the commit included; the crane form removes them only if
  an upload fails.
- `Cases`. Seven desks of one shape (`service`): which moves each refuses, when its clock
  stops, and whether it writes columns (`Current`) or the row as it was read (`clerk[k].seen`).
- `DocumentSlots`. `save(row)` is split where it is split in the library: it reads the row
  again (`SaveReloads`), then updates the columns in which the two differ (`SaveUpdates`).
  The older modules and `Cases` take a `save` as one step.
- `Register`. A person's record, its removal and their account; work addresses are taken to
  be in lower case, as the account stores them.
- `LeadLedger` and `DeckCapture`. The ledger is the abstract specification: a record is entered
  once, under a reference of its own, and every answer names the entry. In `DeckCapture` a lead
  is stored under the key the client made up, in a transaction that draws a reference; attempts
  overlap, answers are lost, the server stops.
- `NoticeQueue`. The batch that stamps everybody who waits, and the stamp set by hand.
- `PostingDesk`. IT postings, crane postings and articles: what an edit writes back.
- `RoleOverrides`. A replacement is DELETE and INSERT under READ COMMITTED: the DELETE sees
  what was committed when it began, waits for rows another one is deleting and passes over
  them afterwards, and the primary key is what two INSERTs may collide on.
- `Roster`. Every statement of the handlers is a step. `excused` is a history variable: slots
  that were left free, or freed, in one of the ways `OpenSlotsAreExplained` names.
- `BusinessDays`. `addBusinessDays` day by day, holidays being an input of the walk, and the
  conversion of the result to an instant in a zone whose offset changes nearby.

## Runs

| run | instance | what it shows |
|---|---|---|
| `booking_race` | 2 bookings, 2 requests, 2 hours, 1 architect, 1 event per booking before a request is refused, crashes | types; BOOKED has an architect; the hour first asked for is never lost; `Booking` implements `HourBoard`, whose moves allow one session to an hour |
| `booking_live` | 1 booking, 3 hours, 2 requests, 2 events per booking before a request is refused, no crash, fair | a cancelled session is dated and its cancellation on the timeline, also when an `assign` that read CANCELLED writes it back over a reopening; an architect put on a session reaches its timeline, a booking reaches the bell, and once nothing is under way the attendee has a letter naming the hour of the row; a closed session that nobody acts on from an earlier reading keeps its hour, and only `setStatus` and its attendee change how it ended |
| `booking_reopened` | 1 booking, 2 requests | **violated**: an `assign` that read REQUESTED writes BOOKED over a cancellation |
| `roster_overlooked` | 1 booking, 1 architect, 1 blackout, 1 hour | **violated**: leave is recorded over a confirmed session, whose slot it looks for and does not have |
| `sessions_race` | 1 account, 2 scopes, 2 tokens, 1 family, 2 passwords, 2 requests, crashes, expiry and purge, fair | types; a session keeps its scope; `Sessions` implements `SessionBook`, so an ended session stays ended; a spent password stays spent; a disabled account's sessions run dry |
| `sessions_forked` | 1 scope, 3 tokens, 2 requests | **violated**: two refreshes of one token both succeed ("each token is single-use") |
| `sessions_outlive` | 2 tokens, 2 passwords, 2 requests | **violated**: a sign-in under way issues a session of the replaced password after the change revoked them all |
| `staff_race` | 2 root accounts, 2 others, 2 dashboards, 2 roles, 2 requests | types; every dashboard keeps an active super admin; every badge has an entitled giver; a protected account keeps its badges; any other holds one from its creation until two removals of its badges overlap |
| `staff_undone` | 1 root account, 1 other | **violated**: a rename saved from a stale read turns a deactivated account on again |
| `visits_race` | 1 visit, 2 engineers, 2 requests, 2 days, at most 2 events of a change when a request begins | types; an answered visit has a stopped clock, a scheduled one a date; date and engineer are on the timeline; a cancellation nobody overlaps is final; a stopped clock is not moved |
| `visits_deserted` | 1 visit, 1 engineer, 2 requests, 2 days | **violated**: `update` with `isActive: false` takes an engineer off the roster with a visit ahead |
| `desks_race` | one desk at a time, 2 requests each; the instances below | types; what uploads, whole-row saves, two-statement writes, retries and batches keep true, and which overlaps undo it: 12 invariants, 2 action properties and the refinement of `LeadLedger` besides the types, one to three for each desk |

Why the bounds are enough. Each property relates at most two rows (two bookings on an hour,
two tokens of a family, a badge and its giver), and each race needs two requests: one that
decides and one that changes what was decided on. Two requests at a time also give every
sequence of requests, since an answered request's slot is used again. Two hours let a session
leave one and another take it; three, in the liveness run, let two moves from the same hour
end in two places. Two tokens of one family, with purging, are reused for a chain of any
length; two scopes are needed for one to be confused with the other. Four accounts are two
protected ones (the checks among equals) and two others (an administrator and the peer they
would make). Two engineers are one to be promised and one to replace them, two days an
upcoming visit and one that is not. `MaxEvents`, `MaxNotes`, `MaxPassword`, `MaxGrants`, `MaxUnits` and `MaxAssigned`
keep the state finite; each is a guard on an arrival or a write and is named in its module.
`booking_live` lets a booking have two events before it refuses requests (`MaxEvents`), which is
a cancellation and the reopening that an `assign` overlooks when it writes CANCELLED back:
`CancellationIsRecorded` is checked there, and its mutant (reopening clears `cancelledAt`) is
caught by that interleaving alone. In `booking_race` a request is taken only while its booking has
no event yet, but any two requests may be taken then, so that a session is still cancelled,
reopened onto an hour that was taken since, moved twice from one hour, or confirmed
on a stale reading.
`booking_race` identifies states that differ only in letters and bell (`WithoutMail`), which
no guard reads.

In `desks_race` each desk has two requests, which is one to decide and one to come in between.
`Intake` has two submissions of at most two files from a pool of two (`MaxFiles`), so that an
upload can fail with one stored and one to come; `Cases` two rows where one can be a duplicate
of the other, and one elsewhere, with one owner; `DocumentSlots` one slot and two papers, one
to be signed off and one to replace it; `Register` two people and two addresses, for one to
take the other's; `DeckCapture` two records and a sequence of four (`MaxDraw`), so that two
draws may be wasted; `NoticeQueue` two who wait, `PostingDesk` one posting, `RoleOverrides`
three permissions (two seeded, one the team page), `Roster` one architect, one hour and two
blackouts, one of which may be the site's; `BusinessDays` two office weeks and a week of one
working day, deadlines up to two days away (`MaxDays`), offsets 0 and 3 and a change within
sixteen hours of the deadline. Files, cases and requests are symmetric.

The runs say `CHECK_DEADLOCK FALSE`: a bounded instance ends when its events, hours or grants
are used up, and nobody is obliged to send another request.

Fairness. `FairSpec` of `Booking` and of `Sessions` has weak fairness on each request's
continuation, since the event loop resumes what was awaited, and none on arrivals. `Sessions`
adds weak fairness of expiry, since time passes. `booking_live` excludes crashes, because
nothing in the code resumes the event, the letter or the bell that a stop cut off;
`sessions_race` includes them, and its liveness property holds in spite of them, as a disabled
account's tokens either get revoked or expire.

## Proofs

The theorems hold for every value of the constants under the assumptions each module names.
Every property of a passing run but the three liveness properties is the statement of a
theorem; a few theorems state more than a run checks (`HourHasOneBooking`,
`EndedSessionsAreOver`, `OneLeadPerRecord`, `CraneRecordsKeepFiles`, `DateIsKept` within
`CancellationIsOnRecord`, and those about what is left true beside a violated run).

- `BookingProofs`: types, `OneBookingPerHour`, `BookedHasArchitect`,
  `CancellationIsRecorded`, and that `Booking` implements `HourBoard`. The inductive invariant
  `IInv` adds to these what a request in flight still knows (`SnapshotOK`): it may have read
  a row that has changed since, but an architect once assigned is never taken off and a
  cancellation once dated stays dated, and that is all its write relies on. It also says that
  two submissions never create the same row. The refinement maps a row's hour to the hour
  held; a stored row is a `Take`, a `Move`, a `Release` or a stutter, and the index is what
  makes the hour free. `OriginalHourIsKept` needs `HourInv`: the hour a reschedule has read
  is one the timeline already explains, and the last move is the row's hour.
  `LettersNameTheHour` needs `LettersInv`: the hour of a row has its letter, or a request is
  on its way that will write it. It assumes that the process does not stop (`~ MayCrash`);
  with a crash it is false, since nothing sends a letter twice.
  `SettledSessionsStay` is about the steps of a session that is closed and that no request
  reads as anything else (`Overlooked`): an arrival reads it closed (`ArriveSettled`), and a
  write of one that did keeps its status and hour, or is a cancellation (`ContinueSettled`).
  `booking_reopened` shows what the hypothesis keeps out. `RosterLeavesBookings`: a step of
  `RosteredSessions` is one of the bookings' or of the roster's own, so what is proved of
  `Booking` holds with the roster at work.
- `SessionsProofs`: types, `SessionKeepsItsScope`, `EndedSessionStaysEnded`,
  `SpentPasswordStaysSpent` and that `Sessions` implements `SessionBook`. `IInv` says of a
  refresh under way that its request agrees with every row of its family on owner, scope and
  era, and of a family about to be opened that no row has it. The two action properties come
  from what a step can do (`Shape`): a usable row appears only through a request that is under
  way in its family, with its era, and a password is put in force only by a request that has
  checked it or by a choice. A password is *spent* when it is not in force, no usable row and
  no request goes back to a check of it. That a *replaced* password is spent would be false: a
  rehash under way can still put it back (see below). `ChangedPasswordsAreSpent` says when it
  is true: a revocation of all of an account's sessions, with no sign-in and no refresh of it
  under way, leaves nothing usable of a replaced password. The refinement needs that the rows
  of a family agree (`RowStep`: which rows a step can make, and that it never makes one of a
  session that is over). `RetiredTokensAreUsedUp` is what is left of "each token is single-use"
  after `sessions_forked`: a retired token that no refresh had read before gets no further
  successor.
- `StaffProofs`: types, `EveryDashboardHasASuperAdmin`, `BadgesHaveAuthority`,
  `ProtectedBadgesStand` and `LastBadgeNeedsAnOverlap`. The check that ought to keep a last super admin,
  `refuseLastSuperAdmin`, is racy, and the proof does not use it. It goes through the root
  accounts (`Rooted`): they have a badge on every dashboard, so `requireWhollyWithin` refuses
  every deactivation of one, `refuseRevokingProtected` every removal of a badge, and a rename
  in flight can only write that it is active (`Checked`). It needs `RootAssumption`: there is a
  root account, and there is more than one dashboard. With one dashboard alone a root account
  could be deactivated from it. `DeactivationsStand` is the other side of `staff_undone`: a
  closed account, with no save under way that would open it (`Off`), stays closed until
  somebody asks for it to be opened. `AccountsKeepABadge` goes by `HoldsABadge`: there is a
  badge, and whoever is about to remove some leaves one, which every check establishes and only
  another removal's write undoes.
- `VisitsProofs`: every property of `visits_race`. `IInv` adds to types what a request
  carries (`Carries`), that a clock it read as stopped is stopped (`Knows`), and that the date
  and the engineer of a row are on the timeline or with a request about to record them
  (`DateKept`, `EngineerKept`), which is `PromisesAreOnRecord` made inductive. The two action
  properties follow from what a step can do (`ArrivalReads`, `ContinuationWrites`): an
  arrival sees the row as it is, and a row changes only through a request already `Writing`.
  `ClockNeverRunsBack`: answers that overlap may stamp a clock again, but the moment is never
  in the future, never moves back and is never cleared.
- `DesksProofs`: `OverridesInv` says that a replacement nobody overtook sees the rows as they
  are, and that of the super admin's none denies the team page; `DeckInv` that the references
  given out are those drawn, and which of them an attempt holds, from which
  `CaptureImplementsLedger` maps each statement to an entry, an answer or a stutter of
  `LeadLedger` (`LedgerEnters`, `LedgerAnswers`); `SlotsInv` that what a save is about to write
  is signed off with the file it was read with, or was overtaken; `NoticesInv` what a request
  that works alone on a notice knows of it; `RegisterInv` that a request under way explains
  every account that has parted from its record; `PostingsInv` that an undated row an editor
  read was undated then, or has been published since. The last section is about `MCDesks`: a
  step there is one desk's own and a stutter of the others (`DesksStepApart`), so each
  behaviour is one of every desk (`DesksAreTheirDesks`), and `DesksAreTyped` and
  `DesksKeepTheirPromises` carry what is proved of each over to all.
- `IntakeProofs`: `IntakeInv` says that a file is in the hands of one submission (`Apart`),
  that what is stored has its object and row unless a removal was ordered, and how far the
  handler is from what it has (`Shape`, `HandOK`, `FilesOK`). `RegistryTellsOfTheBucket` has
  two halves. That a row goes only after its object is part of `IntakeInv`. That a row which
  stays has its object, unless somebody ordered its removal or the clean-up of a submission
  that failed began on it, is an invariant beside it: `StoreStep` lists what a step may do to
  one file, and `FailuresStand` says that who was told of a failure is never told otherwise.
- `CasesProofs`: `CasesInv` says what a clerk knows of the row it read (`ClerkOK`): that it is
  the row, if nobody overlapped; that it is not withdrawn where the desk refuses such rows;
  that a clock read as stopped is stopped. `WritesAreSound` is what the twelve writes have in
  common and all that the theorems need of them: among it that a write moves the column it is
  for and no other (`MovesItsColumn`), unless its desk saves whole rows and was overlapped.
- `CalendarProofs`: `RosterInv` says of each free, unexcused slot which handler, if any, is
  about to close it, and of a generation that nobody overtook that what it has read is what
  is there (`ReadsAreFresh`). `DaysInv` counts: the working days up to the cursor that were
  no holidays are `counted`, and one in seven days of any calendar is a working day, so that
  the walk's length bounds the holidays it has met from below.

Only model-checked: what goes beyond a step (`AssignmentIsRecorded`, `BookingIsAnnounced`,
`SessionsRunDry`), since the proof system has no rule for liveness under fairness.

## Observations that are not runs

Sessions and staff:
- `requireWhollyWithin` says an account with badges on two dashboards may be offboarded by
  "someone holding both badges" (staff.service.ts:1336-1337); the method takes no actor and
  refuses them too. `refuseRevokingProtected` says deactivating a root account "remain
  possible"; while the account has badges on several dashboards, no dashboard may.
- Overlapping revocations can leave an account without any badge although each counted one
  left (staff.service.ts:782); `LastBadgeNeedsAnOverlap` says that nothing else can.
- The entity says `mustChangePassword` is enforced by the permissions guard; the guard says
  it is not, and it is not.
- `purgeExpiredTokens` has no caller.
- A rehash stores a hash of the password that was verified, and so may put a password back
  that was replaced meanwhile (auth.service.ts:191).

Bookings, roster and visits:
- The CREATED event of a booking stands after its transaction's `return` and is never stored
  (booking.service.ts:190, 219-234), although "the first entry" is "written here".
- A `schedule` that read a visit before its cancellation brings it back (setStatus says a
  cancelled request "cannot be reopened"), as `booking_reopened` shows of bookings.
  `CancellationSettles` therefore speaks of cancellations that no writer overlaps.
- `schedule` and `assign` accept an engineer who is no longer on the roster.
- `removeBlackout` reopens every blocked slot the blackout covered, those that another
  blackout or a deactivation had closed included (architect.service.ts:424-440).

Forms with files:
- The quote form and the IT form clean up in a `catch` that covers the event after the commit
  as well: if that fails, a stored request has lost its files (quote 461-497, application
  308-353). The quote form's uploads are before its `try` (362-367), so a failed second upload
  leaves the first behind.
- If the crane form's transaction fails, its uploads stay, although a comment says they are
  cleaned up by hand (crane-application.service.ts:157-163). An object whose row cannot be
  saved stays without one.
- `vtx_crane_applications_cv_check` makes it impossible to delete the file of a crane CV, by
  hand or by the purge: its foreign key would set to null what the check requires
  (migrations/1785888000000:293-300).
- A withdrawal whose event fails leaves a detached CV that nothing removes, and the answer
  says it was deleted even if that failed (application.service.ts:404-440).

Desks:
- A privacy enquiry taken out of SPAM never stops its clock; the contact desk does, on
  purpose. `TakenUpStopsTheClock`, and the theorem
  `TakenUpCasesAreOnTheClock`, are therefore about the quote and the contact desk only.
- `replaceCv` saves a row it read before a whole upload: a status or an assignment stored in
  between is undone, which `HandlersMoveTheirColumn` allows only there and at the privacy desk.
- A VERIFIED document may have no file: after a detachment's second write, or when its file is
  deleted. PENDING may too, by a request without a file.
- A record's address and its account's may part when requests overlap, or when another account
  has the new address.
- A repeated capture that overlaps the first gets an error (the key is unique) and not the
  reference; the deck's next attempt gets it.
- An edit writes back the status and the date it read, and forms may publish without stamping.

## Not modelled

- *Notifications* and *mail*: rows that are added and marked read by one statement each. The
  desks model that neither can fail the request that uses it.
- *Spam check*: a sum of weights against a threshold; its verdict is an input of the forms.
- *Master data*, *site context*, *configuration*: reads of tables and of the environment.
- *Scripts*, *migrations*, DTOs and controllers: of the repository's lines these are the
  larger part, and they hold no state of their own. Constraints from migrations are modelled
  where they act (the booking index, the keys, the checks, the foreign keys).
- Of the desks: notes, listings, links to files and their access trail, payslips (rows that
  are added and never changed), departments, slugs, regions, and the letters, but for those
  of bookings.
- `generate` and the public listing of free slots are modelled for hours that are ahead; what
  happens to a slot whose hour has come is not.
