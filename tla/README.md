# HabitFlow in TLA+

HabitFlow is a web application for tasks and habits: FastAPI routers on top of
services, services on top of repositories, PostgreSQL for the data, Redis for
the auth sessions, and a separate worker that fetches quotes.  This directory
holds TLA+ models of its core, the TLC configurations that check them, and
proofs that the TLA+ proof system checks.  Paths below are relative to the
repository (the application is in `src/`).

Contents: [Inventory](#inventory) - [Modules](#modules) - [Runs](#runs) -
[Findings](#findings) - [Proofs](#proofs) - [Only model-checked](#only-model-checked) -
[Not modelled](#not-modelled) - [Plan](#plan)

## Inventory

| Component | State | Operations | What makes it correct |
|---|---|---|---|
| Scheduling rules (`services/habits.py`) | none: functions of a habit row, its completion dates and a date | expected dates, streak, due rule, required days, progress, expiry | every loop over dates agrees with one meaning of the schedule; the streak, the due rule and the progress agree with each other |
| Habit requests (`services/habits.py`, `repositories/habits.py`, `repositories/owned_base.py`) | tables `habits`, `habit_completions` | create, update, delete, complete, incomplete, pages (which archive) | whole requests only, on one user's rows; no completion in the future or without its habit; the answers are true |
| Habit listing (`services/habits.py:246-327`, `repositories/habits.py`) | none of its own; a count and batches by OFFSET, each with its own snapshot | filter, sort, page | a quiet page is exact; what a changing table may hide or repeat is known; the loop ends |
| Habit statistics (`services/habits.py:418-911`) | none of its own | totals of today, charts, success rates | every completion is counted once; figures match the rules above |
| Auth sessions (`repositories/session_store.py`, `services/auth/login.py`, `redis.py`) | Redis: a key per session, an index per user; the cookie at the client | create, resolve, log out, log out everywhere | keys can be found through the index; a logout is final; lifetimes are kept |
| Accounts and Google OAuth (`repositories/auth.py`, `services/auth/oauth.py`, `services/auth/registration.py`, `routers/auth.py`) | tables `users`, `oauth_accounts` | register, create or find by identity, link, activate | one account per identity and email under concurrency; a lost race is explained; nobody waits in a circle |
| UI session and CSRF (`csrf.py`, `routers/auth.py`, Starlette's signed cookie) | a cookie at the browser: csrf token, Google flow | ensure and validate the token, start and take the flow | overlapping responses do not drop what another page needs |
| Tasks, themes (`services/tasks.py`, `services/themes.py`) | tables `tasks`, `themes` | create, update, delete, complete, incomplete, generated colors | names unique per owner; no reference to a theme that is gone or somebody else's; no lost update |
| Quotes (`quote_worker.py`, `jobs/refresh_quotes.py`, `services/quotes.py`, `services/zen_quote.py`) | tables `quote_batches`, `quotes`; the process of the worker | start, refresh (first and scheduled), stop, crash, restart; pick one | readers see whole batches only; the worker stops when told; quotes arrive after outages |
| Statistics page (`services/statistics.py`) | none of its own; two statements | figures by theme | every task is counted where it belongs |
| Rate limits, middleware, start-up, migrations, templates, CI | see [Not modelled](#not-modelled) | | |

How they interact.  Every request has one database session from `get_db`, in
one READ COMMITTED transaction: an exception rolls it back, a returned response
(also one that reports an error) commits it, and the commit happens after the
response has been sent.  Requests run interleaved on one event loop and on
several server processes: another request may act at every `await`.  Redis is
not part of the transaction.  Authentication reads Redis, then the account's
row; registration writes the row (uncommitted), then Redis, then the cookie.
Pages that show habits, and `POST /habits/`, archive expired habits first.
The UI session is not stored at the server at all: every response sends the
browser the copy its request has worked on.  The quote worker is a process of
its own and shares nothing but the two quote tables with the application.

Behaviours that are hard to test, with their lines, are the `hazards` of
`PROJECT.json`: check-then-act across awaits, midnight between two statements,
two stores without a common transaction, retried commands, overlapping refreshes
and responses, a shutdown that does not wait, paging over a changing table, month
ends, and two statements of the same schedule that may drift apart.

## Modules

| Module | Models |
|---|---|
| `HabitSchedule` | The pure rules of `services/habits.py`: dates are ordinals, a habit is the record of the columns the rules read. Loops are sets and runs of dates; no RECURSIVE operator. |
| `HabitScheduleProofs` | Theorems about its operators, for all habits and dates. |
| `HabitDays` | One habit over the days: `Open`, `Complete`, `Incomplete`, `DaysPass`. Requests one at a time; the subject is the rules. |
| `HabitStatistics` | The figures rebuilt from the habits at every visit; extends `HabitDays`. |
| `HabitDaysProofs` | Theorems and proofs of `HabitDays` and `HabitStatistics`. |
| `HabitBook` | The abstract specification: what readers of the habit tables may rely on. |
| `HabitRequests` | The requests on the habit tables, one SQL statement per step, with the locks and constraints of PostgreSQL. Uses `HabitSchedule` for the due rule and the archiving rule. |
| `HabitRequestsProofs` | Its theorems and proofs. |
| `Sessions` | The session store and the requests that use it, one Redis command or SQL statement per step. |
| `SessionsProofs` | Its theorems and proofs. |
| `Catalog` | The abstract specification of the tables of themes and tasks. |
| `Themes` | The requests on themes and tasks, and the statistics by theme, one SQL statement per step. Implements `Catalog`. |
| `ThemesProofs` | Its theorems and proofs. |
| `Registry` | The abstract specification of the tables of accounts and identities. |
| `Accounts` | Registration, sign-in with Google and linking, one SQL statement per step. |
| `SignIn` | Composes `Accounts` with the auth pages and the UI session of one browser. Implements `Registry`. |
| `SignInProofs` | Its theorems and proofs. |
| `QuoteShelf` | The abstract specification of what the home page draws from. |
| `Quotes` | The quote worker, its refreshes, outages and the home page, one await per step. Implements `QuoteShelf`. |
| `QuotesProofs` | Its theorems and proofs. |
| `Listings` | The list of habits, one SELECT per step, over a table that others change. |
| `ListingsProofs` | Its theorems and proofs. |
| `MCHabitDays`, `MCHabitRequests`, `MCSessions`, `MCThemes`, `MCSignIn`, `MCQuotes`, `MCListings` | Instances for TLC. |

Definitions named "Mutant" in a comment are not part of any specification: each
is a plausible bug, used to see that a property notices it.

### HabitSchedule and HabitDays

A habit has `starts`, `ends` (`NoDate` when null), `created`, `archived`, `type`
and `cfg`.  `LatestExpectedDate`, `PreviousExpectedDate`, `Streak`,
`IsHabitDue`, `RequiredOccurrences` and `Progress` are the methods of the same
names; `Ordinal`, `MonthOf`, `WeekdayOf` and `MonthLength` stand for Python's
`datetime` and `calendar`.

`HabitDays` keeps a row, its completions and the date. The routes always act on
the current UTC date, so `Complete` and `Incomplete` take `today`; like the code,
`Complete` consults the schedule and `Incomplete` does not. `OccursOn` of
`HabitSchedule` is the reference definition of "the schedule names this day",
written from the meaning of the five types and not from any of the loops; the
properties relate the loops to it. `missed` is a history variable: a day went by
on which the habit was due and not done.

Habits are rows `create_habit` can store (`DaysAssumption`: the ranges of the
schemas, a window that does not end before it starts, `archived` as the rule has
it on that day).

`HabitStatistics` adds no state. The user has the habit of `HabitDays` and an
older, archived one (`OlderHabit`; `OlderAssumption` says that it was over, and
its last completion made, before the other was created). `TrendCounts` is the
chart of a range (days, cut weeks, months), `PeriodOccurrences` what a success
rate is made of, `TodayTotals` the figures of the dashboard. Done and due are kept
apart; their rounded percentage is left out (`round` shows 100 from 99.5 on).

### HabitRequests

`habits` and `completions` are the committed rows.  A request has a step `pc`,
the row it read (`seen`), the ids it picked for archiving and the writes it has
not committed yet.  What the steps correspond to:

| Steps | Code |
|---|---|
| `ArchiveSelect`, `ArchiveUpdate` | `archive_expired_habits` |
| `InsertHabit` | `create_habit` |
| `GetForUpdate`, `Reread`, `Flush` | `update_habit`: the row read for the merge, the second SELECT of `OwnedRepository.update`, the ORM's UPDATE of the columns that differ from it |
| `DeleteHabit` | `OwnedRepository.delete` and the cascade |
| `GetForCompletion`, `ListCompletions`, `AddCheck`, `Insert` | `complete_habit`, `add_completion` |
| `GetForCompletion`, `RemoveCheck`, `Remove` | `incomplete_habit`, `remove_completion` |
| `Commit`, `Rollback` | `get_db`; a rollback may also come at any time |

Reads see committed rows.  An UPDATE, DELETE or INSERT waits for the row locks
of others (`CanUpdateRows`, `CanDeleteRow`, `CanTouchCompletion`) and then acts
on what is committed; a completion's INSERT holds a share lock on its habit
through the foreign key.  A request's effect on the tables is applied at
`Commit`.  Abstractions: the columns `name`, `description` and `theme_id` are
left out; a body that validation rejects behaves as a page (`list`), because its
request archives and commits too; the archiving UPDATE of several rows takes
its locks in one step (PostgreSQL may find a deadlock there and abort, which is
`Rollback`).  A day is `1..MaxDay`; a request uses the date it read at its
start, while `InsertHabit` and `MergedPatch` read it once more, as the code does.
`Normalized` is `normalize_schedule_config`, which drops the fields of another type,
so that a PUT of a type alone is accepted when the old configuration has its fields.

Known behaviour, with no property of its own: of two concurrent
`PATCH incomplete` both find the completion, and both answer `changed = true`,
although the DELETE of the second removes nothing.

`HabitBook` has four actions: midnight, creating a habit, working on habits
(edit or archive rows, add or remove at most one date, never a future one) and
deleting a habit with its completions, each by one user on that user's rows.
`HabitRequests` implements it with the identity as refinement mapping: a
request is invisible until it commits.

### Sessions

`keys` and `index` are what Redis holds, each with its deadline (`ends`);
`accounts` is the committed `users` table as far as authentication reads it.
`job` is what a request has found out, `known` the ids held by clients.

| Steps | Code |
|---|---|
| `StartLogin`, `StartRegister`, `Mint`, `Create`, `Respond`, `Commit` | `authenticate` or `register`, `create_session`, `create_session_atomically`, the response with its cookie, `get_db` |
| `StartRequest`, `Get`, `Load` | `get_current_user`, `resolve_user` |
| `LogoutGet`, `DelGet`, `DelKey`, `DelIndex` | `LoginService.logout`, `delete_session` |
| `StartLogoutAll`, `Members`, `Remove`, `DropIndex` | `logout_all`, `delete_user_sessions` |
| `Fail`, `AnswerLost` | a failure between any two commands; the retry of a command whose answer was lost |
| `Tick`, `SetActive` | time and Redis expiry; `set_user_active` |

The callback of Google OAuth ends in the same `create_session`: with an account
that exists it is `StartLogin`, with a new one `StartRegister`.  The model gives
the commit a step after `Respond` because `get_db` is a dependency with `yield`,
which the pinned FastAPI (0.135.1, `pyproject.toml:11`) closes after the response
is sent.  `create_session_atomically` is not retried by the adapter, but the client
below it sends a MULTI again after a timeout (`retry_on_timeout`): `Create` may be
repeated, and `Fail` after it is the MULTI that was done although the request failed.
`logout_all`
and `set_user_active` exist in the services and have no route yet.

`born` and `ended` are history variables.  `born[s].raced` says that the session
was stored, or stored again, while a logout everywhere of its user was between SMEMBERS and the
DEL of the index; `SessionsAreIndexed` excepts exactly these sessions, and the
run `logout_all` shows what becomes of them.

### Themes

`themes` and `tasks` are the committed rows.  A request makes at most one write,
in its last statement before the commit: `write` holds the id and the row it
becomes (`None` for a delete).  `seen` is the row read last, `used` the ids given
out so far, because ids are random UUIDs.

| Steps | Code |
|---|---|
| `ByName`, `ByColor`, `Generate`, `InsertTheme` | `create_theme`, `generate_color` and the unique constraint |
| `GetTheme`, `ByName`, `ByColor`, `Generate`, `Reread`, `FlushTheme` | `update_theme` of the router and the service, `OwnedRepository.update` |
| `DeleteTheme` | `OwnedRepository.delete` and ON DELETE SET NULL |
| `FindTheme`, `InsertTask` | `create_task` and the foreign key |
| `GetTask`, `FindTheme`, `RereadTask`, `FlushTask` | `update_task`, `complete_task`, `incomplete_task` |
| `DeleteTask` | `delete_task` |
| `Commit`, `Rollback` | `get_db` |

What a statement waits for is stated by `BeingWritten` (a row another request has
written), `KeyBeingChanged` and `BeingFiledUnder` (a foreign key shares the row of
the theme, a delete or a rename excludes that), `BeingUnfiled` (the tasks a delete
clears) and `NamePending` (the unique index).  `HashColor` gives the color
`string_to_hex` makes of a name, in the upper case in which it is stored.
`Generate` takes it without a condition: for every one of the 360 hues the
lower-case digits contain an `e`, so the SELECT for them cannot find a stored
color and the loop over random colors is never entered.  Abstractions: only the
columns that are checked are kept (name and color of a theme, theme and completion
of a task); a body that validation rejects, "Все темы" as a name among them, makes
no write and is left out; a statement takes all the locks it needs in one step
(where PostgreSQL finds a deadlock it aborts a request, which is `Rollback`);
habits refer to themes as tasks do and are left out.

The statistics by theme are two statements, `ReadTasks` and `ReadNames`, between
which themes may come, go and be renamed; the code collects the figures by the
name, and calls a task without a theme `NoThemeLabel`.  A theme that its user has
given that very name is merged with it, in the model as in the code.

`Catalog` has a put and a drop for themes and for tasks, each by one user on rows
of that user: a put keeps names apart and files tasks under the user's own themes
only.  `Themes` implements it with the identity as refinement mapping.

### Accounts and SignIn

`users` and `links` are the committed rows of `users` and `oauth_accounts`.  A
request has a step `pc`, what it is about and has found (`req`), the rows it has
inserted and not committed (`draft`) and its answer.

| Steps | Code |
|---|---|
| `ByEmail`, `InsertAccount` | `RegistrationService.register` |
| `Google`, `GetLink`, `GetUser` | `complete_google_oauth_login` with what Google answers, `get_or_create_oauth_user` |
| `InsertUser`, `InsertLink` | `create_user_with_oauth_account_idempotent` inside its savepoint |
| `RecoverLink`, `RecoverUser`, `RecoverEmail` | its `except IntegrityError`: who holds the key |
| `GetLink`, `GetOwn`, `InsertOwnLink`, `RecoverOwn` | `link_oauth_account_for_user`, `create_oauth_account_idempotent` |
| `Commit`, `Fail` | `get_db` |
| `SetActive` | `set_user_active` |

An INSERT waits for the uncommitted row that has its key (`EmailPending`,
`LinkPending`), then fails if a committed row has it.  `Page`, `SubmitForm`,
`SubmitJson`, `GoogleStart` and `GoogleCallback` are the routes; `LinkAccount` is
the service that no route calls yet.

The UI session is the record `jar` of what the browser holds.  A request works on
the session its cookie held when it began (`took`), changes a `copy`, and its
response puts that copy in the place of whatever the browser holds by then, as
Starlette's SessionMiddleware does; an empty session sets no cookie.
`EnsureToken` is `ensure_csrf_token` of the responses that render a page or, for a
request that accepts HTML, an error (`Renders`); whether one renders nothing because
it redirects who is signed in, or answers in JSON, is free (`MayRenderNothing`);
`CheckState` takes the flow out of the session and goes on only with its state; a
flow that is too old is a free choice.  Left out: the password check and the auth
session (in `Sessions`), which only read a row here.

`Registry` has four actions: an account registers with a password, joins with a
Google identity, links an identity, is (de)activated.  `SignIn` implements it with
the identity as refinement mapping: rows are invisible until the commit, and a
savepoint that fails leaves nothing.

### Quotes

`batches` are the committed batches.  There are two refreshes, the `first` one,
which `run_quote_worker` awaits, and the `timer` job of the scheduler, which was
started before it and may overlap it.

| Steps | Code |
|---|---|
| `CreatePending`, `Fetch`, `InsertQuotes`, `ActivateBatch` | `refresh_quotes_batch`, `fetch_batch` |
| `FailBatch`, `Rollback`, `StatementFails` | the `except` that marks the batch and raises again; the outer one that swallows it and closes the session, so the mark is never committed |
| `Commit` | `refresh_quotes` |
| `Start`, `FirstRefreshDone`, `StopSignal` | `run_quote_worker`, the signal handlers |
| `CloseClient`, `AskShutdown`, `SchedulerStops`, `Exit` | leaving the HTTP client, `scheduler.shutdown(wait=False)`, its job cancelled, `engine.dispose` and the end of `asyncio.run` |
| `Fire` | APScheduler's interval job with `max_instances = 1` |
| `Crash`, `Outage` | a killed process; the provider or the database going away and coming back |
| `Home` | `get_random_quote` |

Nothing is delivered twice or lost but by these: a commit that fails may have been
done (`StatementFails`), a crash ends every transaction.  A provider that answers
answers with quotes that are usable (`{} \notin Payloads`); one that is down,
slow or unreadable counts as an empty list, and an active batch without quotes
may be committed.  `QuoteShelf` has two actions: the shelf grows by one answer of the
provider, and a page shows a quote of it, or a fallback as long as it is empty.
`Quotes` implements it under `offered <- Offered`, the quotes of active batches.

### Listings

One listing runs at a time, over a table that others write. `Ask` takes a status,
a sort and a page. For today's habits (`due_today_only`) `Count` and `ReadBatch`
alternate: the code counts again before each batch and stops with an empty batch
or when it has read as many rows as it last counted; `Build` filters by the due
rule, sorts by streak or not at all, and cuts the page. Both sorts, that of SQL
and the stable one of Python, are `InOrder`: the n-th is the one with n - 1 others in
front of it. The other lists are `Count` and `ReadPage`.

A row is a habit with its value in the column sorted by (`RowOf`). `key` is the value
of a column that requests rewrite: the name, which a PUT may change, or `updated_at`,
which every UPDATE changes (`onupdate` in `database/models/base.py:29`); the instance
gives each habit the values it may have (`Keys`). `sort = "edited"` stands for both
columns, `"created"` for `created_at`, which nothing changes, and `"streak"` for the
number of completions, by which SQL orders before Python orders by streak. The writes
are `Create`, `Delete`, `Edit` (a PUT that neither archives nor brings back),
`Archive`, `Unarchive`, `Complete` and `Incomplete`; those that write the row of the
habit `Stamp` it with a key of its own. So an edit between two batches can move a row
the loop has not reached in front of the offset, or one it has read behind it.

`left` and `came` are history variables: the rows that left and entered today's list
since it was asked for. A row that an edit has moved is one that left, at its old
place, and one that came, at its new one.

| Steps | Code |
|---|---|
| `Ask`, `Answer` | `habits_page` |
| `Count`, `ReadBatch` | the two statements of `HabitRepository.list_habits` in a round of `_list_habits_for_due_today_filter` |
| `Count`, `ReadPage` | the same without that loop |
| `Build` | the rest of `HabitService.list_habits`, which reads the completions |

Whether a habit is due, its streak and its completions before today are constants of
the instance: the listing only reads them, and the rules are the subject of
`HabitDays`. A write of another request is one step, its commit; its statements are
in `HabitRequests`. Left out are edits of the schedule, which change who is due (a
listing with one meanwhile is not quiet), and the filters by theme and by type: with
them an edit can also take a row out of the list or put it in, as archiving does.

## Runs

| Run | Instance and bounds | Checks |
|---|---|---|
| `habit_days` | 15 habits over all types and an older one, 6 visits | `TypeOK`, `WalkVisitsScheduledDays`, `StreakCountsSinceLastMiss`, `RequiredCountsScheduledDays`, `DueAgreesWithStreakWalk`, `FaithfulHistoryIsOneStreak`, `ProgressCountsEveryCompletion`, `ChartCountsEveryCompletion`, `FullRateIffNothingMissed`, `TodayIsAPeriodOfOneDay` |
| `habit_requests` | 2 requests of all kinds, 2 users, 1 habit, 3 days | `TypeOK`, `NoFutureCompletion`, `ChangedAddIsReal`, `OwnHabitsOnly`, `ImplementsBook` |
| `sessions` | 2 requests of all kinds, 1 user, 2 sessions, lifetime 2, time to 2 | `TypeOK`, `SessionsAreIndexed`, `EndedSessionsStayDead`, `ServedWithinLifetime` |
| `themes` | 2 requests of all kinds, 2 users, 2 themes, 1 task, 2 names, 2 colors | `TypeOK`, `FiledUnderOwnTheme`, `ThemeNamesDiffer`, `FiguresAreTrue`, `OthersWorkIsKept`, `ImplementsCatalog` |
| `sign_in` | 2 requests of all kinds, 2 accounts, 2 addresses, 2 identities, 2 tokens, 2 states | `TypeOK`, `RaceIsExplained`, `SignedInAsOwnIdentity`, `NobodyWaitsForEver`, `ImplementsRegistry`, `SessionKept` |
| `quotes` | 2 quotes, 2 answers of the provider | `TypeOK`, `ImplementsShelf`, `StopsWhenTold`, `QuotesArrive` |
| `listings` | 3 habits, 2 of them due, one of which edits move to the end and back; batches and pages of 1, 2 pages; `Asks`: today's habits by an edited column and by streak, the other lists by `created_at` and by streak | `TypeOK`, `SkipsOnlyAfterChange`, `TwiceOnlyAfterInsertion`, `QuietPageIsExact`, `ListingEnds` |
| `interval_streak`, `stored_habit`, `theme_colors`, `logout_all`, `registered` | see [Findings](#findings) | one violated property each |

What each shows is in its `about` in `PROJECT.json`.  What the bounds leave in:

* `habit_days`: `Gaps` lets one to two days pass between visits, for monthly and
  yearly habits a month or a year, so that six visits cross the ends of February
  2023, 2024 (leap) and 2025 and, for intervals, two whole cycles.  Windows
  (`starts`, `ends`) open before, on and after the day of creation and close
  within the run, so habits expire and are archived.  The older habit makes the
  chart of all time begin before the habit does.
* `habit_requests`: every race the code has is between two requests on one row
  or one completion; the third day gives two midnights, one inside each request.
  `Patches` are the edits that matter to the others (archive, move the start) and a
  change of type alone, which keeps the configuration; `NewRows` a habit without end
  and a yearly one that expires at the first midnight, whose configuration fits the
  new type once the month is dropped, while that of the first is refused.  The
  second user makes ownership a question.
* `sessions`: a lifetime of two ticks can end while a request is between any two
  of its commands.  Two session ids are a session and its successor.
* `themes`: every race of the code is between two requests on one theme, one name
  or one task.  Two users and two themes make ownership and a second name a
  question; moving a task takes the two themes.  `NoThemeLabel` is one of the names.
* `sign_in`: every race is between two requests for one address, one identity or
  one user; the second of each is somebody else's.  The tokens and states are as
  many as are remembered at a time, in the browser and in a request, so that a new
  one is always one of the unused; when none is left the response waits.
* `quotes`: two answers, one inside the other, so that a batch that is lost,
  halved or replaced shows in what is offered.  The refreshes, the worker and the
  outages are not bounded.
* `listings`: the code reads in batches of `max(per_page, 100)`; with batches of one
  three habits give the loop three rounds, between any two of which each of the
  habits may come and go, and the one with two keys move past the others, without
  bound.

Deadlock is checked in every run.

Symmetry: the requests of `HabitRequests`, the requests, session ids and users of
`Sessions`, the requests, users and theme ids of `Themes`, and everything in
`SignIn` are interchangeable: no definition names one of them, and these runs have
no liveness property for it to disturb.  `quotes` and `listings`, which do, use none.

**Fairness.**  Stated where the code's scheduling justifies it, and used by the
liveness properties `StopsWhenTold`, `QuotesArrive` and `ListingEnds`.

* `Quotes`: weak fairness of each refresh, because the event loop runs every task
  that can run, and a request to the provider times out (`services/zen_quote.py:33`).
  That every statement is done or fails, the latter only while the database is down,
  is an assumption: asyncpg has no command timeout here, and a pooled connection that
  an outage has left stale fails once more after it.  Further of `Fire`, the interval
  always passes again; of `Start` while nobody has stopped it, because the container is
  restarted `unless-stopped` (`docker-compose.yml:8`); and of the steps of
  `run_quote_worker` that wait for nothing but the step before.  None of
  `StopSignal`, `Crash`, `Outage` and `Home`, and none of `SchedulerStops`, which
  races with the exit.
* `Listings`: weak fairness of `List`; a SELECT waits for no lock.
* The others state none: their properties are safety properties, and a request may
  stop at any step, which is what makes a failure between two commands interesting.
  That nobody waits in a circle is the invariant `NobodyWaitsForEver`.

`StopsWhenTold` is not obvious because the stop event is not looked at during the
first refresh; it ends all the same, since every await of a refresh times out or
fails.  `ListingEnds` is not obvious because the list is counted again before every batch;
it ends because a list of existing ids is bounded while the offset only grows.

## Findings

Each is a run whose single property TLC refutes, quoting the line of the
documentation it comes from.

1. `interval_streak`: `_is_interval_cycle_due_today` decides by the completions,
   `_streak_interval` by the phase from the anchor.  After a missed day a
   completion that is accepted may leave `new_streak` at 0.
2. `stored_habit`: two concurrent PUTs, one of `starts_on` and one of `ends_on`,
   store a window that ends before it starts.
3. `theme_colors`: `generate_color` looks for a lower-case color among upper-case
   ones and never finds it: themes named "Work" and "work" get one color.
4. `logout_all`: `delete_user_sessions` drops ids added to the index since it
   read it; their sessions survive every later logout everywhere.
5. `registered`: the first request after a registration may overtake its commit;
   `resolve_user` then deletes the session just made.

## Proofs

TLAPS checks every theorem for all values of the constants that satisfy the named
assumptions `DaysAssumption`, `OlderAssumption`, `ListingsAssumption`,
`RequestsAssumption`, `SessionsAssumption`, `ThemesAssumption`,
`AccountsAssumption` and `QuotesAssumption`: any habits and gaps between visits,
any number of rows and size of batches, of requests, users, habits, sessions,
themes, tasks, accounts, identities and quotes. TLC evaluates the same assumptions
in the runs. Every safety property of the runs that pass, invariant, action
property or refinement, is proved. The inductive invariants (`IInv`) are proved
and not part of a run; those of `HabitDays` and `Listings` were checked by TLC on
the instances of the runs before they were proved.

**HabitScheduleProofs.** About operators, for all habits that `ConfigFits`, all
histories and all integers as dates (Python's are the years 1 to 9999, where the
code raises an error at the ends; the operators go on). The calendar comes first:
a year begins where the last one ended, `YearOf` and `MonthOf` find the year and
month of a date, and the clamped day of a month is its only scheduled one. On that
rest, for each of the five types, what the loops find: `LatestIsLast`
(`LatestExpectedDate` is the last day up to a date for which `OccursOn`, and
`NoDate` exactly when there is none), `PreviousIsLast` (so is the step back from
it), `StreakIsRun` (the streak counts the scheduled days since the last one not
done) and `RequiredIsScheduled` (the counts over weekdays, months, years and
phases are numbers of scheduled days). The prover has no induction over data;
`NatLeast`, that a set of natural numbers has a least member, derived from the
well-foundedness of finite sets, takes its place: each claim about all runs or all
days is proved by its least counterexample.

**HabitDaysProofs.** `TypeCorrect`, then `Invariant` proves `IInv`. Of the properties,
`WalkCorrect`, `StreakCorrect`, `RequiredCorrect` and `DueRulesAgree` need only
the types and the theorems above; the others are about histories and are not
inductive by themselves. `CompletionsWereDue` says that the rules still ask for
each completion, given those before it; it survives later completions because a
rule looks back only, and later withdrawals because withdrawing is only possible
today. `MissedIsUndone` says that what the history variable `missed` saw day by
day can be read off the completions later, and `ArchivedIsOver` that archiving
hides no day that still counts. From these: `ProgressCorrect` (for intervals by
`IntervalCapacity`: of any `active` + 1 days in a row one is without a
completion), `FaithfulCorrect` (a habit never missed is on the phase of its
anchor), `RateCorrect`, `TodayCorrect` and `ChartCorrect` (the cut weeks and
months of a period are disjoint and cover it, so that their sums add up).
`CalendarCompletionsCount` is the positive half of the first finding: an accepted
completion of a daily, weekly, monthly or yearly habit always counts in the
streak.

Where an attempt failed, TLC had the counterexample, and the model or the property
was corrected: `YearOf` was wrong on the first of January of 32 years in 400; a
progress of at most 100 % is false for interval habits with breaks of two days and
more whose user leaves out days and does others, so
`ProgressCountsEveryCompletion` compares with breaks of one day; and a habit that
starts before it was created has days nobody could complete, so
`FaithfulHistoryIsOneStreak` and `FullRateIffNothingMissed` ask that it does not.

**ListingsProofs.** `Invariant` proves `IInv`, and from it `SkipsAreExplained`,
`RepeatsAreExplained` and `QuietPagesAreExact`. The argument is one of offsets:
the `Offset` of a row is the number of rows in front of it, and `InOrderSorts`
says that a sorted list is the list of its rows by offset (offsets are distinct
and smaller than the number of rows, so a finite set has one for each place). A
row is `Undisturbed` while neither it nor a row in front of it has left or entered,
which includes every row that an edit moves; its offset then does not change
(`UndisturbedStays`), so it is in the batch that passes it, and `PassedIsRead` is
inductive with the clause that the last count exceeds it, which is why the loop does
not stop before it. A row that is `NotPushedBack` only moves to the front
(`NotPushedBackStays`), so no later batch has it again (`ReadIsPassed`).
`ReadWasListed` adds that a habit read twice was at one place unless it has moved: a
second place of it is a row that came. For a quiet listing `QuietReadIsExact` keeps
that the rows read are the first of the list; that the due rule, Python's sort and
the cut then give the page of the habits due is `BuildIsExact`, by a bijection
between places and habits.

**HabitRequestsProofs.**  `Invariant` proves `IInv`, and from it `TypeCorrect`,
`CompletionsAreNotInFuture`, `CompletionsHaveHabits`.  None of the invariants is
inductive by itself: a pending INSERT becomes a completion only at the commit,
by which time its habit could be gone.  The strengthening says what locks and
constraints guarantee about uncommitted writes: a request makes one kind of
write and only in its last statement (`OneWriteAtMost`), what it has locked
exists and is its user's (`LockedRowsExist`, `TargetIsOwned`), a pending INSERT
is of a new date and a pending DELETE of an old one (`PendingDateFits`), an id
being created is new and nobody else's (`NewIdIsFresh`, `NewIdIsPrivate`), and
two requests never hold conflicting locks (`LocksExclude`).  The proof has one
lemma per action; `LocalStep` deals with the many steps that touch only the
request's own variables.  `RequestsImplementBook` maps initial states to initial
states and every step to a step of the book or a stutter; only `Commit` and
`Midnight` are not stutters, and `RequestsKeepToOwnHabits` follows from what a
request has locked being its user's.  `ChangedMeansAdded` adds `AnswerInv`: whoever will
answer `changed = true` to a completion has its INSERT pending.

**SessionsProofs.**  `Invariant` proves `IInv`, from it `TypeCorrect`,
`SessionsStayIndexed`, `LoggedOutStaysOut` and the action property
`ServedInTime`.  The strengthening is `RequestInv`, what a request has read and
relies on while others go on (the owner of its session, that it came in time,
that the key it deleted is gone, that a logout everywhere has only the sessions
still on its list or raced ones left); `KeyInv`, that a key carries the owner
and the deadline of its birth; and `MakersDiffer`, that two requests never make
the same session.  A logout is final because an id is stored by one request
only, before any client knows it.

**ThemesProofs.**  `Invariant` proves `IInv`, and from it `TypeCorrect`,
`TasksHaveOwnThemes`, `NamesDiffer`, `FiguresAreOfThemes`, the action property
`UpdatesKeepOthersWork` and the refinement `StatementsImplementCatalog`.  A task may
be filed under a theme that another request deletes before the commit, and a name
may be taken between its look-up and the INSERT; what excludes both is stated about
uncommitted writes: a row that a request has found is its user's or gone (`Mine`,
`MineTask`), the id it creates is used by nobody (`NewIdIsFresh`, `CreatorsDiffer`), its
write fits the rows there are (`ThemeWriteFits`, `TaskWriteFits`), and two requests
never hold locks that exclude each other (`LocksExclude`).  Steps are dealt with by
kind: those of the request's own variables (`LocalStep`, `QuietStep`), those that
write (`WriteStep`), and the commit, with one lemma per part of the invariant.

**SignInProofs.**  `Invariant` proves `IInv`, from it `TypeCorrect`,
`LostRacesAreExplained`, `SignInsAreOwn`, `NoWaitIsForEver`, the refinement
`StatementsImplementRegistry` and the action property `PagesKeepTheSession`.
`AccountsInv` is about the tables and what is on its way into them: an uncommitted
row is one the committed rows leave room for (`DraftFits`), two of them never have one
key (`DraftsDiffer`), and what a request has found, or the constraint it has met,
stays (`FoundFits`, because the tables only grow, `TablesGrow`).  A lost race is
explained because the constraint of a linked identity can only be met through the
identity: the account was new, so no committed link could have been its own.  A
chain of waiting requests has at most two links, since users are inserted before
identities.  `SessionInv` says that a handler changes only the flow in its copy of
the session, which with the form of a response gives `PagesKeepTheSession`.

**QuotesProofs.**  `TypeCorrect`, `BatchesAreWhole` (what is committed is active and one
whole answer of the provider, or nothing) and the refinement `WorkerImplementsShelf`,
from an invariant of what a draft holds at each step of its refresh; a failed
batch is marked in a transaction that is never committed.

## Only model-checked

* `StopsWhenTold`, `QuotesArrive` and `ListingEnds`: liveness under fairness and
  ENABLED are out of reach of the proof system.  Of `ListingEnds` the safety half is
  proved: every round but the last reads a row (`RoundsAdvance`), and there are never
  more rows read than ids (`RowsAreBounded`).
* The violated properties of the [findings](#findings), by their counterexamples.

## Not modelled

* The theme a page remembers to filter by, in the same UI session (`web.py`);
  the redirects of pages without a user; the third-party rate limiter.
* Of the statistics page, the figures of tasks by period and the tops, which are
  sorts of figures that are modelled; the rounding of percentages.
* The lists of tasks and of themes with their counts: one or two plain SELECTs, as
  the other lists of `Listings`.
* Columns no other request depends on: names of tasks, descriptions, priority, and
  the names of habits but for the order of a list; the theme of a habit, which is referred to as that of a task is.
* Password hashing, what Google does, Redis and PostgreSQL below their commands.
* Request context, headers and error pages: stateless.  That an exception rolls
  the transaction back is in every model.
* Start-up, configuration and health; migrations (the models take the schema they
  end in); templates and browser scripts; CI.

## Plan

What is left, in this order:

1. The theme of a habit as a third reference in `Themes`, with the look-up of
   `create_habit` and `update_habit`.
2. The composition of `Sessions` with `SignIn`: the auth cookie beside the UI session.
3. Theorems that bound the findings, as `CalendarCompletionsCount` does the first: a
   stored window ends before it starts only if two PUTs of one habit overlapped, and
   a session dies early only while its owner's registration is uncommitted.
