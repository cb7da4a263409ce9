# Verification of maple-routine-server

TLA+ models, TLC runs and TLAPS proofs for the server in `src/` (NestJS, one
process, PostgreSQL). All paths below are under `src/src/` unless they say
otherwise; `legacy/` is the frozen predecessor and is not modelled.

## 1. The system

The server stands between the app *maple routine*, the Nexon platforms (Open ID
for login, Open API for game data, two friends APIs), Firebase for push, and an
administrator's browser. One process runs it; a deploy or a crash loses
everything in memory (refreshes in flight, run slots, request buckets, the
settlement state) and nothing that was committed. Inside the process,
concurrency is the event loop: code between two `await`s is atomic, everything
else interleaves. PostgreSQL runs most statements in their own transaction, so
two statements of one handler interleave with those of any other.

| part | state | operations | what makes it hard | what makes it correct |
|---|---|---|---|---|
| **Nexon login** `modules/auth` (service, attempts, sessions, cleanup) | tables `nexon_attempts`, `nexon_sessions`; the locals of a callback | start, callback, redeem/peek, logout, withdrawal, sweep each minute | handlers are chains of statements: copies of one callback, two redeems, the sweep and a crash fall between any two of them | one session per login, handed out once, never taken back by the machinery, never left where nobody can reach it |
| **Token service** `modules/auth/token.service.ts` | the map of refreshes in flight; sealed tokens of a row | tokenFor, resolve, rejected | Nexon rotates refresh tokens: the second of two refreshes, or a lost answer, kills the session | one refresh at a time; a session is deleted only when it is dead; everyone who waits is answered |
| **Friends run** `modules/friends` | run slots; the shared state of the workers of a run; the response behind a gzip | stream, run, NDJSON output | workers share a cursor and a stop reason between awaits; writes wait for a client that may leave; errors in the middle of a stream | each task ends once, the end line is last and true, slots come back |
| **Friends client, request bucket** `clients` | one bucket per platform | page, 429 retry, drain | everyone waits for the drain, then all retry; a drain reads and then takes | every page ends |
| **Settlement watch** `modules/settlement` | night, settling, finished, in memory | probe every ten minutes, view | probes fail, answer late, start over after a restart | the band is up only while the night's settlement was seen and not seen over |
| **Notices and push** `modules/notices`, `modules/push` | table `notices`; the poller's flag | collect, announce, schedule, edit, cancel | insert, push and mark are separate; operators edit what the poller sends | a post is announced at most once and never late, a notice that is due is sent |
| **Accounts** `modules/users`, `modules/identity` | users, accounts, sessions, all rows of a person | guard, record, link an API key, request and cancel deletion, purge | persons are merged while their requests are under way | a hash never takes over a login, a merge keeps of each record what was written last, nothing is let in after the wish to be deleted |
| **Game data sections** `modules/game-data` | one time per section | read a section, touch it | rows and time are read by two statements | every change moves its section's time, and an app never holds old rows under a new one |
| **Catalogue lists** the catalogue repositories | worlds, grades, loot, cashbook, FAQs, pictures, contents, hunting grounds, spending, hexa matrix, symbols, enhancement, drop items, equipment, bosses, drops | make, change, delete, move, seed | checks in code before a transaction, unique keys, cascades and CHECKs behind them | places differ, references resolve, what an app looks up is one row, a form never ends as a 500 |
| **Dated prices** `crystal-prices`, `symbol-costs` | chains of periods | add, take the latest back | dates, boundaries, several costs at once | periods without gap or overlap, only the latest price changes |
| **Administration** `modules/admin` | none of its own | the handlers of the forms | what is checked where, and which status it ends as | as the lists above |
| **Seeding** `cli` | none of its own | fill empty tables at every deploy | runs over tables operators have edited | keeps every row |
| **Uploaded records** drop prices, cashbook, boss clears, enhancement, usage | rows per person, soft-deleted | batched upsert, delete, purge | retries, two devices, difficulties that go | a row and its items fit, a time of trade stays |
| **Drop market** `modules/drop-market` | none (judged at each reading) | fence, sample, overview | quantiles of few prices, the border of the days read, trades reported late, changed and taken out | a past verdict rests on the days up to it alone, a fence keeps the middle |
| **Manual completions** | rows | open, close | two operators open the same thing | one open row per boss |

How the parts call each other: a friends run asks the token service for a token
per task and reports refused tokens to it; the token service and withdrawal
delete the rows the login made; the cleanup job works on the tables of the
login; the poller uses Open API, the notices table and Firebase; every
catalogue edit touches its section; a friends run fetches through the bucket of
its platform; uploads go through the guard that finds persons; the market judges
the uploaded drop prices; deleting a difficulty reaches drops, prices and uploads.

`PROJECT.json` lists the parts with what is modelled of each, and the hazards of
the code at their lines.

## 2. Plan

The modules in the order in which they were built, all of them there:

1. `NexonLogin`, `TokenService`, `StreamRun`, `NoticeDelivery`, each with its proofs:
   the parts where statements of several actors interleave most.
2. `Catalogue` and on it `Lists`, `Contents`, `SpendCatalog`, `HexaMatrix`,
   `SymbolCosts`, `Enhancement`, `DropItems`, `Bosses`; `Prices` shared by two of
   them, `PriceStack` as the abstract specification of dated prices;
   `Administration` composes them, `GameData` sets a reader against an operator.
3. `Accounts`, `Uploads`, `Settlement`, `DropMarket`, `NexonBucket`; `Service`
   composes them. `AccountsProofs`, `ServiceProofs`.
4. `CatalogueProofs`, list by list, and on it `AdministrationProofs`: the invariants of
   the catalogues, the refinement of `PriceStack`, and what a seeding and the times of the
   sections promise.

Every invariant, action property and refinement the passing runs check is also proved;
what is left to the runs alone is liveness (end of section 6).

## 3. Modules

### NexonLogin

A pair (`nexon_attempts` row) is an element of `Attempts`, standing for its id,
state and redeem key; a session is named by the callback that made it. `stage`,
`expiresAt`, `claimedAt`, `sealedAt`, `sealedBy`, `sessionId` are the columns
(`stage` says which of `claimed_at`, `sealed_at` is set; `sealedBy` stands for
`receipt_hash` and `session_sealed`). `session[c]` also remembers why a row is
gone, which the properties are about. `pc[c]` is the statement a callback is at:

| code | action |
|---|---|
| `AuthService.start` | `Start` |
| `attempts.claim` in `callback` | `Claim` (a claim that matches no row sends the user back) |
| no code: `attempts.delete` | `Abandon` |
| `exchange`, `userinfo`, `upsertByNexonUid` | `Nexon` |
| `sessions.create` | `CreateSession` (commits or not, answers or not) |
| `attempts.seal` | `SealPair` (an UPDATE of a missing row is silent) |
| catch block | `UndoPair`, `UndoSession` (each may fail, as `.catch` allows) |
| `attempts.redeem` (DELETE ... RETURNING) | `Ask` |
| `attempts.peek` | `Peek` |
| logout, refused token / withdrawal | `EndSession`, `Withdraw` |
| `CleanupJob.run`: sweep, then `deleteExpired` | `Sweep`, `DeleteExpired` |
| process | `Crash`, `Restart`, `Tick` |

The receipt is known only to the app that was redirected with it: a request
carries the receipt of a callback that returned one for that pair, or none.

### TokenService

One session and the part of Nexon that rotates its refresh token (numbered in the
order of issue: Nexon accepts only `current`). `inflight` is the map entry;
`leader` says whose promise a caller awaits. `Settle` is what the promise does to
everyone who shares it, `finally` included. Nexon's grant and the arrival of its
answer are two actions, so the answer can be lost in between (`LoseTokens`,
`Crash`). `FetchPage` and `Rejected` are the part of a friends run that uses the
token and reports a refusal. `recorded` may be later than `realEnd`, because
`expires_in` is counted from the arrival.

### StreamRun

One run. `phase` is where the controller and the service are; `response`, `conn`
and `slot` what they hold; `others` the slots of other runs. An action is the code
between two awaits. `Write` puts a line into the gzip at once and may then wait
for the client (`blocked`), and an abort rejects a write that waits. Promise.all
rejects with the first worker that threw (`WorkerThrew`) while the others go on;
they end by themselves because the run is aborted. `finals`, `gaveUp`, `ends`
record the lines that were written, which the properties are about.

### NoticeDelivery

A notice is a post of Nexon (`Posts`) or one of the operator (`Apps`); its row has
`scheduledAt` and whether `sent_at` is set. One of the four kinds of posts is
modelled: `tick()` goes through the kinds in turn, catching what one throws.
`poller` is the statement `tick()` is at and `todo` what is left of its loop:

| code | action |
|---|---|
| the interval, `running` | `StartTick` (only when `poller` is idle) |
| `nexon.noticeList` | `NoticeList` |
| `knownKeys`, `hasAny` | `KnownKeys` |
| `rowOf`, `insert`, then the test for a push | `Insert` (an error ends the round of this kind: `Stopped`) |
| `sendNotice` for a post / for a due notice | `PushPost`, `PushDue` (sent, sent without an answer, not sent) |
| `markSent` | `MarkSent` |
| `dueScheduled` | `DueScheduled` |
| `OperatorNoticesService.create`, `update` | `Create`, `Update`, then `PushNow`, `MarkNow` |
| `remove`, `cancelSchedule` | `Remove`, `CancelSchedule` |
| Nexon, the process, the clock | `Publish`, `Crash`, `Restart`, `Tick` |

`pushes`, `pushedAt`, `asked`, `tried` and `halfSeeded` are histories for the
properties. The poller works on rows it read at the start of its loop, so what
the operator does meanwhile does not reach it. `dueScheduled` is the one call of
`tick()` that nobody catches: when it fails the process dies (`Crash`) and is
started again. `shouldNotify` looks at the title, which is left out, so any post
may be turned down.

### Catalogue and the lists

`Catalogue` is what all lists have in common. A table is a function from keys to
rows; a payload (name, icon, number) is one of two values, and the picture it
refers to has the same number. A call of an administrator, or of the seeding, is
two steps: `Ask` reads what the handler reads before its first write (`Seen`), and
the action named after the handler commits against the tables as they are then.
What the database checks by itself (unique keys, foreign keys, CHECKs, cascades) is
checked at the commit and thrown as the handler would see it. `answer` keeps the HTTP
status (of a seeding the exit code) and the sections whose time was moved. `Cut` is a
call that ends before its commit.

| module | tables (repositories under `modules/`) |
|---|---|
| `Lists` | worlds, MVP grades, hunting loot, cashbook categories and item kinds, FAQs, pictures with their files and crops |
| `Contents` | content categories and contents, hunting regions and grounds |
| `SpendCatalog` | groups, tiles, items and forms of spending, with `checkShape` |
| `HexaMatrix` | kinds with the costs of their levels, names, cores of jobs, stats |
| `SymbolCosts` | groups, symbols, dated costs per level |
| `Enhancement` | rules, bands of potential, soul, steps of star force |
| `DropItems` | drop items, boxes and what they hold, equipment |
| `Bosses` | rules, bosses, difficulties, drops, crystal prices, completion by hand |
| `Prices` | what adding a dated price and taking one back do to the rows of one thing |

Operators carry the names of the repository's methods, actions those of the
handlers in `admin.controller.ts`; `Seed...` actions are the functions of
`cli/seed-game-data.ts`, which follow the same repositories. Calls of several
transactions (rules, seeding of bosses) commit one and go on (`GoesOn`).

`Administration` composes the lists. Lists that share no table cannot disturb each
other, so a behaviour stays on one *scene*: the lists that do share one and the
requests made of them. `Together` names the scenes in which several operators work
at once, `Alone` is the operator of the others (section 5 says why). The
`...Section` operators are what `GET /v1/game-data` returns of a section.

`PriceStack` says what dated prices promise: each thing has a stack of the days its
prices start on, and only the top changes. `Administration` maps its tables to it
(`Stack == INSTANCE PriceStack WITH stacks <- ...`) and checks `PricesAreStacks`. No two
prices of a thing start on one day, so a stack is the set of its days and its top the
latest.

`GameData` sets the two reads of a section against the writes of an operator, for
the section of the worlds; all sections are read in the same way.

### Service

`Service` composes five modules, again one scene at a time.

`Accounts`: a credential (a login or the hash of a key) finds a person. A request is
the guard (`Guard`: `upsertAccount`, `recordAccountId`, the refusal of who asked to be
deleted) and then its handler, and by then the person may have been merged or may
have asked to be deleted; time may pass between the two. `since` is when the guard let
a request in, `admitted` the `since` of the request that gave a row to its person.
`linkApiKey` is one transaction in four steps, with the statements of others between them:

| `users.repository.ts` | action | what it holds to its end |
|---|---|---|
| 80-111, row of the key, `FOR UPDATE`, checks | `LinkLook` | the row of the key (`LinkHolds`) |
| 113-125, two DELETEs of what is outlived | `LinkDiscard` | the rows deleted (`gone`) |
| 126-131, three UPDATEs of `user_id` | `LinkMove` | the rows moved, under both names (`moved`), and whether events were |
| 132-144, the account, DELETE of the person, commit | `LinkCommit` | |

Nobody sees what it wrote before `LinkCommit`, so only that changes the tables; until
then it holds rows (`Locks`, `Pinned`), and a statement that would write them waits: its
action is not enabled. `LinkMove` that meets a row of the same record, which either person
wrote since, ends as a unique violation. What is uploaded for the person of the key after
`LinkMove` loses its `user_id` at `LinkCommit` (`ON DELETE SET NULL`: `anonymous`).
`RequestDeletion` and `DropSessions` are the
two statements of a request to be deleted, `Purge` is the nightly job. `prices` stands
for the records that are merged by the time of their last write, `copies` for those
that are dropped with the person of the key; of a price there are `live`, `updated`
and `admitted`. Scenes: `logins`, `deletion`, `records`, `events`, `copies`.

`Uploads`: the records of one person's devices. A body is checked, its difficulty
looked up, its row written, and the difficulty may go in between; a batch goes on
after a body that is wrong and ends with an error nobody expects. An entry of the
cashbook is a transaction of three statements: `WriteRow` (`ON CONFLICT DO UPDATE`, which
waits while another holds the row: `Free`), `DeleteItems` (it deletes what is committed by
then, kept in `old`), `InsertItems`, and then `CommitEntry`, which shows all of it at once
and leaves beside the new items those that `old` does not have (`Left`). A row and its
items fit only because the first statement serializes the others. Devices repeat,
reorder and are cut off. Scenes: `drops`, `clears`, `entries`, `totals`, `counts`.

`Settlement`: the clock and Nexon's settlement on one side, the probe and what is in
memory on the other; Nexon looks at some moment of the call, and the answer is
reduced at a later one.

`DropMarket`: the trades of one item, judged by `FenceOf` the trades of their day and
the days before. `Upsert` reports a trade of any day up to now, or changes the price and
the time of one; `TakeOut` is `markDeleted` or a row that is no longer completed. A sample
is a set of ids of trades, and `Sorted` finds the price that is i-th in order by how many
prices are below it. Limits are kept forty times as large, so they are integers.

`NexonBucket`: the pages of a platform and the reservoir of its limiter. Emptying the
bucket after a 429 reads what is left and takes that away by a second job, so the
reservoir may go below zero.


## 4. Runs

| run | instance | what it shows |
|---|---|---|
| `login` | 1 pair, 2 callbacks, 2 redeems, clock to 4, 1 crash; symmetric (435 000 states) | six invariants below, against reloads, racing redeems, the sweep, failing and half-answered statements, withdrawal and a crash |
| `login_orphan` | 1 callback, refresh tokens that outlive the clock | **violated**: a session whose callback died before sealing is in no sweep's reach (`cleanup.job.ts:11` says orphans are collected every minute) |
| `token` | 2 tasks, clock to 6, 1 crash (79 000 states) | no refresh race, lost answers included, deletes a living session; answers to all who wait |
| `token_long_task` | tasks longer than the refresh margin | **violated**: a token ends under a task and its session is deleted (`token.service.ts:17` says only a dead token is refused) |
| `stream` | 2 workers, 3 tasks of up to 2 pages, a budget of 2 pages, 2 slots (186 000 states) | lines, reasons and slots under deadlines, budgets, disconnects, refusals and thrown errors |
| `stream_early_close` | the client may leave before the headers | **violated**: such a client is not noticed, and a waiting write keeps the slot (`nexon-open-id.client.ts:42`, `friends.service.ts:46`) |
| `notices` | an old and a new post, 1 notice announced up to twice, 1 request at a time, clock to 2, 1 fault (236 000 states) | posts are announced once, not late and not on the first round; a notice is not multiplied and not forgotten |
| `notices_retry` | 1 notice, no faults but refused pushes | **violated**: a scheduled notice whose push failed is tried again in the next round (`notice-poller.ts:42` says a failure is final) |
| `administration` | 22 scenes, 3 keys, 2 payloads, 3 names, 3 days, 2 operators (401 000 states) | whatever forms are sent and whenever the seeding runs: rows, places, references, sums of costs and periods of prices stay sound, and the times of the sections tell every change |
| `cascade` | the scene of crystal prices | **violated**: deleting a difficulty takes its drops and prices along and leaves the times of their sections (`sections.ts:32` says every write moves it) |
| `reader` | one section, one operator, one app | **violated**: rows read before a write and a time read after it leave the app with old rows for good (`game-data.controller.ts:21` says a change arrives at once) |
| `service` | 13 scenes, 2 requests, 2 logins, 1 key, 3 persons, 2 devices, 3 nights, 4 trades on 5 days, 3 pages (568 000 states) | persons, records, the market, the band and the bucket, against statements between those of a merge, deletion, repeated and cut uploads, late and changed trades, late and failed probes and cancelled pages |

Bounds. Two pairs share nothing but the clock and the job, so one pair with two
callbacks and two requests has every race; the times are the smallest that keep
the order of the real ones (window and ttl shorter than the retention, a callback
shorter than the retention) and the clock runs past every deadline once. Two
tasks are enough for a shared refresh and for one that comes after it; three
tasks under two workers let one worker take a second task while the other stops.
For notices, `Stale` is 0 and `RoundMax` 1: a post is fresh in its own unit of time,
may still go out in the next, and is old in the one after, where the clock ends;
the poller's two loops share only the clock, so one notice beside two posts is
enough, and a request that announces it races with the poller that sends it.

In the catalogues three siblings have a first, a middle and a last, and deleting the
middle one is what breaks a place that is counted; `Names` has two that differ only
by a space; day 1 begins a week and a month, day 2 a month, day 3 a week, so a price
can start before, at and after another, and off the boundary of its cycle. The seed
has two rows, over tables that are empty, edited or half there. `MaxOrder` and
`MaxStar` stop lists from growing by moves and deletions for ever.

In `Service` three persons are one of each login and one of the key, two requests
are a merge and whoever uses its person meanwhile, and `MaxNow` 1 with `Grace` 0 lets a
deletion fall due. The scenes with one login keep to two persons at a time (`FewPersons`):
one of the login and one of the key is what a merge needs, and the second id comes back when
its person is gone. With one key no two links are under way at once; that one waits for the
rows of another (`Unlocked`) is met in the proof, and was run once with two keys, prices
and links only, over three persons (594 000 states, the same properties). Four
trades exceed the sample of three (4 in the code), three of a price and one of another leave
that one outside the fence; five days take a trade out of what is read while one it may
not change is still shown (`ShortDays` 1, `LongDays` 2, `ShownDays` 3 for 7, 30 and the days
of a page).
Three pages on a bucket of one are a page that empties, one that waits and one that
comes in between the two steps. `tries` stops at 2, which stands for more.

`MaxNow`, `MaxRestarts`, `MaxAsked`, `MaxFaults`, `EarlyClose`, `MaxClock`, `MaxNight`,
`MaxDay`, `TradeIds`, `FewPersons`, `MaxOrder`, `MaxStar` and `MaxTime` bound exploration
only, and appear in guards of the environment; the theorems hold for every value of them.

Deadlock is not checked in these modules: each of them can really stop (the clock
is at its bound and no request is left; the run is over).

What the properties say, and why a test would hardly reach them:

- `OneSessionPerLogin`, `RedeemedOnce`: races on one row, decided by the WHERE of
  one statement.
- `HandedOutSessionKept`, `ReceiptSessionTracked`: the catch block deletes a pair
  and a session after a seal that may have committed, the sweep deletes sessions
  with pairs, redeem deletes pairs and keeps sessions. Nothing an app holds may
  go, nothing nobody holds may stay.
- `DeadPairSoonGone`: the sweep's three conditions.
- `ReceiptDecides`: redeem and peek are two statements with anything in between.
- `RejectedMeansDead`, `RotationKept`, `TokenOutlivesTask`, `ReloginMeansGone`,
  `CallersAnswered`: the claims the comment of `token.service.ts` rests on.
- `EndAccountsForTasks`, `EndLineIsLast`, `ReloginKept`: what an app reads from the
  lines of a run.
- `SlotCoversFetches`, `SlotReturned`: the limit on concurrent runs is real, and
  does not wear out.
- `AnnouncedOnce`, `FirstRoundSilent`, `NoBacklog`: a round may stop or die after any
  statement, and the next one sees a table that is neither empty nor complete.
- `PushesAccounted`: push and mark are two statements, of two actors.
- `DueIsSent`: failures of one round do not leave a notice behind.
- `PlacesDiffer`, `OneRowFound`, `ReferencesResolve`, `NoGapInCosts`: what apps take for
  granted of tables that many forms write, after any sequence of them. Most of it no
  column checks: a name without its spaces, the one default of a kind, the options of
  the items of a tile, a step without the one below.
- `NoServerError`: what a form may get wrong is found by the code before the database
  finds it.
- `OnePriceInForce`, `PricesAreStacks`: each day has one price, and no request changes
  what the days before the latest start have read. (A start may lie in the past: an operator
  who adds such a price, or takes it back, changes the days from it on.)
- `TimeTellsEveryChange`: an app fetches a section only when its time moved, and the
  time is moved by hand in every method. The exceptions it names are the code's own
  (section 7).
- `SeedingKeepsRows`: a deploy runs the seeding over everything operators wrote.
- `OnlyKeyPersonsMerge`, `MergeKeepsLatest`: a link checks a person by one statement, and
  deletes, moves and removes by later ones, while devices upload for both persons and
  somebody logs in or leaves. What was uploaded for the key while the link is under way is
  the one thing that may be left without a person, and the property says so.
- `DeletionEndsAdmission`: no row of a person, nor an anonymous sample left of one, came by
  a request that the guard let in after the deletion was asked for, through merges,
  cancellations and purges that fall between the guard and the write. It is not about the
  time of the write, which may well be later (section 7).
- `EntryItemsWhole`: two devices send an entry, and the three statements of one fall between
  those of the other or are cut off. Without the lock of the first statement (its mutant)
  both delete the same old items and the row stands beside the items of both.
- `TradeTimeKept`: two devices send the same record, and one of them repeats it later.
- `BandFollowsNexon`: relates the band to Nexon's true state, over late and failed
  answers and restarts.
- `PastVerdictsStay`: nothing is stored, so the verdict of a day that is over stays only if
  each reading reads far enough back and never looks ahead. It says which steps may change
  it: those that add, change or take out a trade of the days it rests on. Such steps there
  are (section 7); that they are the only ones is the property.
- `MostOfSampleCounts`: quantiles between two places, of few, distant or equal prices.
- `EveryPageEnds`: whoever empties the bucket under a waiting page.

## 5. Assumptions and fairness

- The clock of the database is the clock of the process.
- A callback answers within `CallbackMax` of its claim (two calls to Nexon with
  timeouts of ten seconds, and SQL) and that is less than the retention of an
  unsealed pair (two minutes, `attempts.repository.ts:12`). A callback that hangs longer in SQL is outside.
- While the process is up the cleanup interval fires on time and its statements
  succeed; one that fails is retried a minute later.
- Nexon's old access token stays good until it ends after a refresh; its old
  refresh token dies when a new one is issued. Both are external.
- For `TokenOutlivesTask` and `RejectedMeansDead`: a task and the call that got
  its token end within the refresh margin (`TasksPrompt` in the proofs). The run
  `token_long_task` shows that the code does not enforce it.
- A client that stays connected reads in the end (nginx closes slow ones).
- A round of posts is over within `RoundMax` of its start, and Nexon's date of a post
  is when the post appeared on the list.
- "redeemed" is the commit of the DELETE; its answer to the app may still be lost,
  and then the session lives until its refresh token ends.
- Fairness in `TokenService`: weak, on each caller's refresh - queries and calls
  with timeouts always come back. In `StreamRun`: weak, on each worker and on the
  service, whose awaits are calls with timeouts, writes that drain while a client
  reads, or writes rejected by an abort. None on clients, the clock, crashes or
  the deadline. In `NoticeDelivery`: weak, on the poller (the interval fires and its
  calls come back) and on the restart; strong, on a due notice that is delivered with
  its answer and on its mark: Firebase and the database may fail any number of times,
  but not for ever. `NexonLogin` states no liveness: its promises have deadlines, and
  are invariants over the clock. In `Service` only the bucket is scheduled: weak, on the
  refill (time passes), the limiter's next job, a fetch that has a time-out, and the
  two steps of an emptying; nobody need ask for a page or cut one.
- One operator works on a catalogue at a time, but for the scenes in `Together`:
  pictures and completions by hand, where two do. The code does not enforce this: it
  reads before its transaction and takes no lock. With other scenes in `Together` TLC
  finds two rows on one place, a boss whose two difficulties were deleted by requests
  that both counted two (`bosses.repository.ts:141`), two prices of now
  (`crystal-prices.repository.ts:111`), a step of star force added above one just taken
  back, and unique keys that end as a 500. These are listed under hazards, and the
  runs are about what one operator after another can do.
- A statement of `Accounts` writes the time at which it is done; in PostgreSQL `now()` is
  when its transaction began, which for the single statements of uploads is the same but
  for the wait on a row. A link writes no time that a property reads.
- The two DELETEs of a link are one step (`LinkDiscard`), and so are its UPDATEs of rows
  (`LinkMove`): each is of another table, and no request writes two of them. A deadlock
  PostgreSQL breaks, or a unique violation `LinkMove` does not meet by itself, rolls
  back one request: `CutCall`.
- A probe is over before the next night.

## 6. Proofs

All of it is checked by TLAPS from the assumptions named in the modules, for any
number of pairs, callbacks, requests, callers, workers, tasks, pages, posts, notices,
persons, credentials, records and devices. The type invariants of the first four
modules are proved (`TypeCorrect`) and no longer take a run.

**NexonLoginProofs.** The six properties of `login`, and type correctness. The
invariant `PairInv` has the parts `Claims` (a claimed pair belongs to one callback,
which still runs within `CallbackMax` of the claim), `SweepSparesCallback` and
`Seals` (what is on a pair was written by its callback). `SweepSparesCallback` is
inductive only with the clause about the clock, and `Seals` only with it: a seal
that matched no row would break `Seals`. `Removal` is the lemma all deletions share.
On top of it `AskInv` needs `Pointers` (a live session whose receipt was sent is
pointed to by its sealed pair), because a foreign key may null the pointer.
`SweepClock` is apart: the next sweep is never more than an interval after a pair's
death, and the clock never passes it.

**TokenServiceProofs.** `RefreshInvariant`: the map entry is the only leader, and
what a leader sent is either still stored or already replaced. From it
`RotationKept` and `ReloginMeansGone`. With `TasksPrompt`, `PromptInvariant` bounds
how long a token is held, and gives `TokenOutlivesTask` and `RejectedMeansDead`.

**StreamRunProofs.** `RunInv`: `Owners` (a task in work is with one worker),
`Accounts` (every taken task has its last line, was left for a new login, is in
work, or was lost by an abort or a thrown error), `Phases` (an end line only when no
worker is left) and `Reasons` (a worker leaves only for a reason). `TaskMoves`
reduces the six actions of a worker to the five things they do to a task.
`AllDone` needs at least one worker: with none, a run would be "done" at once.

**NoticeDeliveryProofs.** `DeliveryInv`: `Loops` (what the poller holds in each loop),
`StoredFirst` (a post is in the table before it is pushed, and unpushed until then),
`Seeded` (until the old posts are stored the table is empty or the round that fills
it is running), `Punctual` (the age test still holds, up to a round, when the push is
made) and `Budget`: pushes made, requests about to push and the poller's own claim on
a notice together never exceed what was asked for plus the faults. `PushesAccounted`
is not inductive without the last two, since a request between its row and its push
has already been counted; `Begin`, `Through` and `Frame` are the three ways a step
changes that sum.

**AccountsProofs.** `AccountsInv` is the inductive invariant of persons. Beside types it has
`PersonsInv` (a session belongs to a person who has a login; two credentials of one person
include a login), `WritesInv` (a request that writes was let in before its person asked to be
deleted, if the person did) and `LinksInv`. The last is of each link under way `LinkOK` (it
goes from a person of one key to one who logs in) and `HeldBy`: `HeldRows` (what it has
deleted and moved are rows of the two, and none of a new name was there), `LaterStays` (for
each row deleted another stays that was written as late) and `OthersAreLate` (whatever else
the person of the key has came after the link began); and of two links `Apart`: they write
different rows. None of these is about what a property reads in one state: a link decides in
one statement and acts in the next, and they say what other requests leave true in between.
That is the frame argument of the module: `PersonsFrame`, `RowsFrame` and `CallsFrame` say
what a step of another request may do to persons, rows and calls, `LinksStay` that `LinksInv`
survives it, and each action of an upload, the guard, a login, a deletion or the purge is
shown to be such a step. The steps of a link itself follow, `MergedFact` says what is left of
two persons' rows. `MergingIsLinkCommit`: only a link removes the person it merges. From this
`KeyPersonStep` and `LatestStep`. `DeletionEndsAdmission` (`Asked`) is kept by each step that
keeps `AccountsInv`: a row carries the `since` of the request that gave it to its person, which
`WritesInv` bounds, and a sample keeps what its row had.

**ServiceProofs.** `PersonsFit`, `KeyPersonsMerge`, `MergesKeepLatest` and
`DeletionEndsAdmitting` carry that to `Service`: a step of another module leaves its variables
alone. `EntriesKeepTheirItems`: `ItemsInv` adds to the property that one device at a time is
within the transaction of an entry, and that what it has deleted is all there was, which the
commit of a second device in between would break. `TradeTimesStay` needs the columns of
`drops` and no more. `WatchInv` (what the memory says of tonight is true of Nexon, and so is an
answer on its way) gives `BandIsTrue`.

`MarketRows` (the columns of a trade) is all the two market properties need of a state.
`PlaceFilled` shows that every place of a sample has a price, from `Dearest` and `Cheapest` (a
finite set of numbers has both); `QuarterPlaces` that the places from the quartile to the
third one are at least half; `HalfIsWithin` that the fence, which reaches at least to both
quartiles, holds the prices on them. `VerdictStays`: a verdict depends only on the rows
up to the day of its trade and at most `LongDays` back, which every reading that still
shows the trade has read; a step that touches no trade of those days leaves it.

**CatalogueProofs.** First the operators all lists are built from: the place of a new row
is behind its siblings and neighbours swap theirs (`OrdersDiffer` is kept), a chain of
dated rows is a chain after a price is added to it or the latest taken back, and the
days it starts on move as a stack does. Then list by list, for all but the bosses, the
same four things: `Good...`, what its tables keep to, which is stronger than the
properties (rows of their columns, places that differ among siblings, references that
resolve, unique columns); `...Part`, that a transaction on one of its tables leaves
the others good; `...Outcomes`, that a transaction on good tables, asked for by a handler
whose checks passed on the same tables, leaves good tables and never throws what the
handler does not expect; `...Step`, that therefore each handler keeps `Good...`.

**AdministrationProofs.** The bosses come first, in the same way. The inductive invariant
is `IInv`: `TablesGood`, the `Good...` of all lists; `PlainCalls`, `GroupedCalls`,
`DroppedCalls`, that a call under way asks something of its scene and that what it has
read (`seen`) is what the tables hold now (but for calls that have committed a first
transaction and go on); and `WorksAlone`, that there is one call at a time where one
operator works. The properties alone are not inductive: a handler
decides on what it read, and its commit is only sound if that is still there. In the
two scenes where several work at once less is needed: completions are decided by the
statement that writes, and of a picture only that a file once stored stays. From `IInv`
follow `TypeCorrect`, `NoErrorOfTheServer`, `PlacesStayApart`, `OneRowIsFound`,
`ReferencesStay`, `CostsWithoutGap` and `OnePriceADay`.

- `PricesImplementStacks` (`PricesAreStacks`): each commit on a table of prices pushes,
  pops, clears or fills (`StackMoves`), and a commit on other tables, or of a call that
  is refused, is a stutter. Since the top is the latest day, what the
  days before it read stays; what the days from it on read does not, past or to come.
- `SeedingsKeepRows`: a seeding inserts rows under keys that are free (`SeededKeeps`) or
  replaces a list it read as empty, and so are then the lists that hang on it, which
  `Good...` says (`EmptyIsKept`). That what it read is still there at the commit is
  `IInv`. Values are filled only where there is none.
- `TimeTells`: `Honest` says of all that a transaction can leave that if it moves no time of
  its section, it leaves what there was. It is shown of each transaction (`...Honest`),
  carried through the handlers (`...Told`), and put together for all sections: a
  list's step touches no other list. The transactions of bosses write up to three
  sections; `CommitsAreTold` takes them apart. The exceptions are those the
  property names, and no more.

All of these, the invariant included, are proved under `OneOperator` (`Together` has at most
`manual` and `pictures`, as in the run), which the code does not enforce: they say what one
operator after another can do, and with other scenes in `Together` the properties section 5
names are false. They hold for any finite set of keys, any payloads, names, days and
requests, and empty or half-filled tables. The assumptions on the constants are
`CatalogueAssumption` (keys are finite, as are columns of a bounded width; names and keys
are numbers; a seed's rows have keys), `ScenesAssumption`, `BossesAssumption` and
`EnhancementAssumption` (a seed's rows exist).

What a recursive definition computes for all inputs is beyond these provers, so the
models define what the proofs need without recursion: the top of a stack, the largest place
and the price at a place by what they are, and their existence by the well-foundedness of
finite sets (`Largest`).

Model-checked only: liveness (`CallersAnswered`, `SlotReturned`, `DueIsSent`,
`EveryPageEnds`), which is out of the prover's reach. The violations are counterexamples
of TLC.

## 7. Notes and what is not modelled

What the code does that a reader may not expect, and that the models follow:

- The seeding of crystal prices fills an empty party size of a seeded difficulty again,
  also one an operator emptied, and moves no section's time for it; nor do the seeding of
  the rules of spending and enhancement. `TimeTellsEveryChange` excepts these and the
  rows that go with a difficulty (run `cascade`).
- An operator may raise the top level of a symbol group above the costs there are; an
  app then has levels without a cost at the top, but no gap below one that has.
- A deletion asked for by the person of a key after a link checked that person is lost
  with the person, whose rows go to the login (`users.repository.ts:75` says that a request
  to be deleted must not vanish in a merge; the check sees those that came before it).
- A drop price uploaded for the person of a key after a link moved that person's rows, and
  before it ends, loses its `user_id` with the person: it stays as an anonymous sample, and the
  person who logged in does not see it again until the device sends it again. One of a record
  the person of the login has as well, uploaded between the deletions and the moves of a link,
  ends the link as a unique violation.
- The guard looks at the deletion before the handler writes. A request let in before the
  deletion was asked for may write after it, with a later `updated_at`, and its row is among
  the samples that stay when the person goes; `identity.guard.ts:48` says that who asked to be
  deleted is refused so that no new record stays among the anonymous samples. That holds of
  requests that come after, which is `DeletionEndsAdmission`.
- A trade reported late, a new price or time of one, and one taken out change the verdicts of the
  days whose sample it is in, past ones too (`drop-prices.repository.ts:199-230`; the batch of
  `drop-prices.controller.ts:63` is for past records). `fence.ts:64` says that a new row does not
  change the verdict of a past day, which is true of rows of later days: `PastVerdictsStay`.
- The start of a dated price may lie in the past, and so may that of the price taken back: the
  days from it on then read another price than they did.
- A drop price of a difficulty that is deleted between lookup and write ends as a 500 and
  ends its batch; the records before it stay. `markDeleted` of an entry that is not
  committed yet does nothing.
- A restart forgets that a settlement was seen: the band is down until the next probe,
  and a settlement that ended meanwhile is never marked as finished.
- After an error in the middle of a run the response stays open until the client or the
  proxy closes it (`friends.service.ts:78`).

Not modelled: sealing and hashing (modelled as keeping and comparing the value), the
wording of pages and lines, HTML and the GET pages of the administration, images as
such, the static files of OTA, candles, usage statistics, configuration, migrations and
start-up, `legacy/`. Within the modelled parts: several sessions of one person in
`NexonLogin` (they share nothing but withdrawal), heartbeats and line contents of a run,
the platform choice of the friends client, the fields of a record beside those its
writes depend on, amounts and counts, requests of an app's older versions beside those
that send no boss or time, and the text comparison of dates. `Uploads` follows one person:
what a merge does to records is in `Accounts`.
