# Verification of the mesh backend (gofn)

TLA+ models of the services in `gofn/` that keep state and can get it wrong:
queues, claims, locks and clean-ups that several goroutines, requests, restarts
and outside programs work on at the same time. TLC checks the models on small
instances, TLAPS proves the main invariants for every value of the constants.

```sh
tlc -workers 2 -config Outbox.cfg MCOutbox      # any row of the table of runs
tlapm OutboxProofs.tla                           # any *Proofs.tla
```

`PROJECT.json` lists the components, the runs, the mutants that show that each
property can fail, the source lines behind every definition, the findings, and
the hazards the properties are for.

## The system

One Go binary, `gofn`, answers HTTP requests at the edge and runs background
loops. Behind it are Supabase (PostgREST over Postgres, through an Envoy
gateway), TimescaleDB on a NAS that may be away for hours, OpenSearch (filled by
a second binary, `gofn-indexer`), Firebase Cloud Messaging, AzuraCast, and at
the TV station a Windows program that drives an SMS modem.

| Component | State | Operations | What is hard | What makes it correct |
|---|---|---|---|---|
| Edge outbox (`outbox.go`, `outbox_jobs.go`) | bbolt buckets pending, dead, dedupe, meta; the drainer's backoff | Enqueue, drain one job, retry, dead-letter, replay, dedupe clean-up | the handler runs outside any transaction; crash between insert and deletion; re-sent batches; a size counter kept apart from the data | no acknowledged batch is lost; duplicates are accounted for; the queue drains |
| Traffic ingest (`traffic.go`, `salttv_traffic.go`) | rows in TimescaleDB; two cached rule tables | receive a batch, resolve advertiser and title, insert in chunks of 100 | a chunk fails after others were committed; retries; a failing fetch of the rules | what is accepted is stored, each spot once and for good; the built-in rules are the last resort |
| Analytics, ads, Varnish ingest | rows in TimescaleDB | validate, queue, insert | inserts are not idempotent | duplicates only after a crash or an ambiguous commit |
| SMS replies (`sms.go`) | rows of `sms_outbox` | enqueue, poll (read, then claim), report row by row | the poll is two requests; lost answers; overlapping polls | no reply sent twice or lost; the status is true |
| Inbound SMS (`inbound_router.go`, `sms.go`) | `chat_messages`, `channel_contacts` | find the room on air, insert, remember the contact, tell the admins | the program changes or the room is cleared meanwhile; a station id escaped twice; check, then insert; pushes sent again | a text answered with success is in a room that was on air, its sender known |
| Chat-room managers (`chat.go`) | `chat_rooms`, `chat_messages` | every minute: open the rooms on air, clear them once a day, close the others | two managers; shows that share a room; many requests per run; midnight; failures in the middle | only old messages are deleted, once a day; the open rooms are those on air |
| Chat participants (`chat.go`) | participant rows | process a message, notify | read, then write; overlapping calls | everyone joins once and is told once, for the strongest reason |
| Push notifications (`notifications.go`) | the log table, `broadcastMu` | send, broadcast, stale clean-up, delete | background sends outlive requests; restarts; the clean-up races with live sends | one broadcast at a time; the log is true |
| TimescaleDB connection (`tsdb.go`) | a lazily dialled pool, its mutex | conn, status | everyone waits while one dials | the mutex is held by a live dial or ping only; all callers get on |
| Radio sync (`radio_sync.go`) | history, daily listeners, appended reports | poll AzuraCast, insert what is new | a failing check answers "nothing is there", and then one row that is there refuses the whole insert; runs by request overlap the schedule | a song that was pulled is stored; the tables catch up |
| EPG mirror, daily viewers (`epg.go`, `radio_programs.go`, `viewer_sync.go`) | tables derived from tables | truncate and fill; upsert a row a day | failures half-way; a key that refuses the fill after the truncate; overlapping runs; edits in between | the mirror is whole or empty, and says what its source says in the end |
| Indexer (`gofn-indexer/main.go`) | OpenSearch indexes | page through a table with failover; delete, create, bulk load | failure in between; rows that come and go under the pages | a read is complete; an index holds what it was loaded with |
| Caches (`ads.go`, `radio.go`, `epg.go`, `ondemand.go`) | maps with expiry | look up, query, store, clear | the lock is released for the query | no answer much older than its lifetime, none older than an acknowledged edit |
| Varnish tracker, GeoIP (`varnish_analytics.go`, `geoip.go`) | sessions, minute history, address cache | hit, expire, snapshot; look up | counts at minute boundaries; the outbox inserts at least once; windows wider than the expiry; overlapping look-ups | windows count what was heard of; each minute once; answers settle |
| On-demand catalog (`ondemand_crud.go`, `bunny.go`) | shows, seasons, episodes, counts; Bunny's collections | create, edit, delete, recount; webhook | several requests per edit, writes that are answered 500 and done, edits that overlap; a webhook before its row, or one that cannot find it | the counts are right; episodes do not wait for ever |
| Users (`users_mgmt.go`) | Firebase Auth, `users`, Firestore | create, change role, delete | three stores, one after the other, errors dropped; an email escaped twice | the stores agree |
| Pure parts (`chat.go`, `epg.go`, `geoip.go`, `admin_analytics.go`, `ondemand.go`, `rest.go`) | none | who is on air, a day's payload, shares, merges, filters | midnight, rounding, nesting | equal to a definition said another way |
| News, images, signing, queries, dispatch | none | request and reformat | - | - |

The components meet in few places. Ingest handlers call the outbox, whose
drainer calls their inserts; both resolve their rows through the rule tables and
get their connection from `tsdb.go`. The scheduler's loops call the managers and
the sync jobs. Listeners' apps and the inbound router write into rooms the
managers open, clear and close. Everything else shares only the tables.

## Modules

| Module | Models | |
|---|---|---|
| `Outbox` | `outbox.go`, `outbox_jobs.go`, the enqueueing handlers, start and shutdown in `main.go` | detailed |
| `AtLeastOnce` | what the outbox promises its clients | abstract; `Outbox!ImplementsAtLeastOnce` |
| `ReplyQueue` | what the reply queue promises one gateway | abstract; `SmsOutbox!ImplementsReplyQueue` |
| `Backoff` | `outbox.backoff` | function; gives the outbox runs their delays |
| `SmsOutbox` | the reply queue of `sms.go`; the gateway is external | |
| `ChatRooms` | the two managers of `chat.go` | |
| `NotificationLog` | `notifications.go` | |
| `TsdbConn` | `tsdb.go`: `conn`, `status` | extended by `Traffic` |
| `Traffic` | the direct inserts of `traffic.go`, `salttv_traffic.go`, `analytics.go`, `ads.go` | composed with `TsdbConn` |
| `OnDemand`, `BunnyVideos` | `ondemand_crud.go`; `bunny.go` with the episodes' videos | |
| `RadioSync`, `EpgSync`, `Indexer` | `radio_sync.go`; `epg.go`, `radio_programs.go`, `viewer_sync.go`; `gofn-indexer/main.go` | jobs |
| `Lineup`, `Reports` | pure parts of `chat.go`, `epg.go`; of `geoip.go`, `admin_analytics.go`, `ondemand.go`, `rest.go` | operators |
| `Selections` | loops that keep some members of a list; a stable sort | operators for the two |
| `Algorithms` | tasks for these operators, and reference definitions | |
| `Caches`, `ViewerStats`, `GeoCache` | the four answer caches; `varnish_analytics.go`; the cache of `geoip.go` | |
| `Inbound`, `ChatMessages` | `handleSMSInbound`; `handleProcessChatMessage` | `Inbound` with the managers' daily clear |
| `UserStores` | `users_mgmt.go` | |
| `MC*` | instances for TLC; `MCIngest` is one of `Traffic`, `MCContent` and `MCAudience` take several modules at once | |
| `OutboxProofs`, `SmsOutboxProofs`, `ChatRoomsProofs`, `NotificationProofs`, `TrafficProofs` | proofs about the module of that name (`NotificationProofs`: `NotificationLog`; `TrafficProofs`: with `TsdbConn`) | |
| `AudienceProofs`, `AlgorithmProofs`, `ContentProofs` | proofs about `MCAudience` and its parts; about `Algorithms`; about `MCContent` and its parts, with `AlgorithmProofs` for the algorithms | |

`MCContent` and `MCAudience` hold modules that share no state. Their variable
`part` is chosen in the initial state and names the module that the behaviour is
about; the others rest. So one run explores the sum of the parts, not their
product, and loses nothing, as no action of one part reads another.

Definitions whose comment begins with "Mutant" are deliberate mistakes. No
specification uses them; each is put in the place of the definition it imitates
to see that a property then fails.

### Outbox

One action per bbolt `Update` transaction, since bbolt runs them one at a time:
`EnqueueNew`, `EnqueueDuplicate`, `EnqueueFull` (the three ends of `Enqueue`),
`MarkDone`, `MarkDead`, `RecordFailure`, `ReplayDead`, `CleanupDedupe`. A batch is
a model value standing for its payload and its dedupe key, which the handlers
compute from the payload. The key of a job is the receipt time, fixed by the
handler before `Enqueue` (`Receive`), and the sequence number: a request that was
received first can be stored second.

The drainer's program counter is `poll`, `handling`, `returned` or `asleep`.
While it is handling, it holds a copy of the job outside any transaction.
The handler ends in `HandleOk`, `HandleError` (database away, or it refuses the
rows), `HandleAmbiguous` (the insert commits, an error is reported) or
`HandlePermanent` (a kind or payload this binary cannot handle). `Exhausted` is
OUTBOX_MAX_ATTEMPTS. `Crash` is the end of the process, at any step: SIGTERM is
no different, since `main` closes the outbox without waiting for the drainer.
`Start` may bring a newer binary, and may be store-only (OUTBOX_DRAIN=0).

Times are relative: a job has ticks until it is due, a dedupe entry ticks until
it expires, and `Tick` counts all down. Sizes are small numbers, and an error
text adds to a record's size, as it does in the code, for the size counter.
The texts in `meta` and `Stats` are left out. Corrupt records are left out: the
file is written by this code alone.

Abstract specification: `AtLeastOnce` has only the batches held, delivered and
acknowledged. Held means pending or dead; delivered means in TimescaleDB. A
batch may leave only when it is delivered.

### SmsOutbox

`PollRead` and `Claim` are the two requests of `handleSMSOutboxPoll`; between
them other polls, claims and reports happen. The claim's filter is a conjunction
of status and ids (`restPatch` splits it at the top-level comma), so it leaves
rows alone that are no longer pending, and the poll returns them nevertheless.
`ReportRow` is one PATCH of `handleSMSOutboxReport`, by id alone. The gateway
polls, sends, reports, and polls again (section 5 of
`docs/INBOUND_SMS_WHATSAPP_PLAN.md`); each element of `Agents` is such a cycle,
so two of them are two gateways or a timer that does not wait. `Mishap`s are
failed requests, lost answers and gateway restarts.

Abstract specification: `ReplyQueue` has only what the presenter sees of a reply,
the replies handed out and still to be sent, how often each was sent, and how
often a batch was handed out unmarked (a failed claim). With one cycle the queue
implements it; with two it does not, as `sms_double_send` shows.

### ChatRooms

Shows and rooms are kept apart. A show is a program of the radio or of a TV station,
or one of the two rooms of an event, which the code opens by id and by the slug of
its title. `RoomOf` gives each show its room. Rooms are named by slugs, so shows may
share one: nothing keeps an event's title from being a radio program's name, or two
programs from having one name. `Platform` has the kinds an event's chat is opened
under, `KeepShows` the programs with `delete_chat` = false; events always keep.

A run of a manager is a record: its step, the date it formatted at its start,
the shows it wants, those still to open, the show at hand, and the rooms it
will close. `Begin` reads the lineup and the events; `ReadStamp`, `Clear`,
`Upsert` are the requests of `activateChatRoom`; `List` and `Close` those that
deactivate. `BeginPartly` is a station or the events that could not be read,
`ClearFails` the delete whose error is logged, `SkipEvent` the dropped error of
an event, `Abort` everything that ends a run early: a returned error, the
one-minute context, a restart. `Post` is a listener's message, which carries the
day it was written.

A room that both managers open is one row that both write, with their own kind, and
either closes it only under its own. `KeptChatsKept` and `StampedDayKept` say what
becomes of the messages there: a daily program clears the room whatever was written
for the event, and the manager that read the stamp first may clear after the other
has stamped. `daily` is a history variable: the rooms last stamped for a show that
does not keep its history. Messages are reduced to the days they are from, names and
texts are left out. Existence check and insert or update of `upsertChatRoom` are one
step: rows are never deleted, and only the losing insert of two first openings of
one room differs, which is `SkipEvent` or `Abort`.

### NotificationLog

A send passes through insert, fetch, fan-out and finish; without devices it goes
to "failing". Broadcasts hold `broadcastMu` from request to end. `Cleanup` runs
once per process, and marks rows of live sends too. `FinishFails` covers the
20-minute context that is over when the patch is sent. Tokens and counts are
left out: `pushed` says whether the fan-out was made.

### TsdbConn and Traffic

`conn` returns the pool, or dials under the mutex (`ConnDial`, `ConnDialed`,
`ConnDialFails`) while all others wait; `status` never waits (`TryLock`) and holds
the mutex while it pings. In `Traffic` each record of a batch is resolved in
order: the advertiser from the rules, the title from the overrides, each table
cached and fetched under a mutex of its own, so a request may hold a rules' mutex
while it waits for the connection's. A fetch that fails or returns nothing
leaves the last good version, or version 0, the built-in list. Then the
statements: one per chunk, any of which may fail, or commit with its answer lost
(`InsertUnsure`). The unique key of a row is the log and the record's id, in
which the aired second and the title are abstracted together. Agents send again
until they hear success; the webhook says success even when its insert failed.
Which conditions of a record hold (readable, an advert, complete, retitled) and
who names its advertiser are data of the batch.

### OnDemand and BunnyVideos

Each request of a handler to PostgREST is a step, and a read that fails is taken
for "nothing found", as in the code. `seasons` and `episodes` are the rows, with
the numbers in their ids; the counts are re-read and written back in two
requests. Season ids are made of the slug of the show's title, which two shows may
share; `Mirrored` are ids the dashboard brings along. `doubt` has the shows
and seasons whose counts a failure or an overlap spoilt, as `CountsTrue` says. A write
that fails is answered 500 and not counted, and it may be there all the same
(`InsertSeasonFails`, `DeleteSeasonFails`, `InsertEpisodeFails`, `DeleteEpisodeFails`);
one recount of an object's own rows ends its doubt.

`BunnyVideos` is the path of one request from Bunny's answer to the episode's
row, against webhooks that may arrive in between, and the collection that a show
gets when none is found under its title. A row made of a URL alone has no guid
(`TakeUrl`): the webhooks of 3 and 4 find it by that URL (`HookPatch`), the one of a
failure does not (`HookFailed`). The insert may be answered 500 and be done.

### RadioSync, EpgSync, Indexer

The jobs step by step, each step a request. The scheduler's run of a job never
overlaps itself; a request for the same job may overlap it. `RadioSync` is about one
job in a behaviour (`job`), since jobs share no table. A run's songs are inserted by
one statement, which the key of `radio_history` refuses as a whole when one of them
is there (`SongsRefused`); `excused` has the songs of runs whose check or insert
failed, or that another run forestalled between the two. `EpgSync` truncates and
fills two tables from two reads of the lineup. The key of `epg_metadata` is
`ContentId`: a radio program's name, a TV program's id, which is empty when it has
none. Two programs of one key (or one with a station's key), or the rows of an
overlapping run, refuse the one statement that fills it (`MetadataRefused`), and the
run ends there; `epg_programs_radio` is filled row by row and has no such key.
`torn` says how the last run ended. The daily viewers are upserted day by day,
hourly for yesterday and today, nightly for the last thirty. `Indexer` reads pages
in the order of ids from the first base that answers and starts again on the next
when one fails; replicas are assumed to be in step with each other. A page is the
rows whose rank in that order lies between offset and offset plus page size. The
rows read are kept as a set, since they are loaded under their ids.

### Caches

All four caches look up, release the mutex, query, and store under the mutex;
`cache` says which one a behaviour is about. A value is reduced to how long ago the
source moved away from it (`stale`), its age, and what happened to it since:
`via` records edits acknowledged by a handler, deletes, and that it was already
outdated when it was stored. The readers' hands are part of the state, because
what was looked up before an edit is used after it.

### ViewerStats, GeoCache

A session is a stream and an address; `lastHit` remembers what the process heard,
next to what the map still holds. The scheduler's job (`RecordMinuteSnapshot`, then
persisting the counts of that later moment) and readers of the history record the
snapshot of a minute. `Persist` inserts the counts, or hands them to the outbox,
whose key is the minute and the counts (`keys`); `Drain` is what the outbox then
does, in short: it inserts a job, and again after a commit that reported an error
(`doubts`). `WindowExact` is about windows up to `Widest`, the 168 hours of
`live_tv_stats.go`, of which all beyond `Expiry` can lose sessions. `GeoCache` has
what the cache says of an address (nothing, what the service told, the guess made
when it did not), and look-ups that ask without the lock.

### Inbound, ChatMessages

`Inbound` is one handler per push of a text: route, resolve, insert, contact,
notify, with the program on air (`onAir`), and the requests of the manager's clear
(`ReadRoomStamp`, `DeleteChat`, `StampRoom`) between any two. The number's `route`
is none, or a station whose id is "plain", or "escaped": one that `url.QueryEscape`
changes, such as "Salt TV One". The id is escaped before `url.Values` escapes it, so
the second kind matches no row of `epg_programs` and its texts are dropped. `aired`
collects the rooms on air while a handler ran. `ChatMessages` has the three reads of
`sendChatNotifications` and the pushes one by one; who was told already decides who
is still to be told.

### UserStores

The role in each of the three stores, "unset" for an account without claims. Each
request to a store is a step, failing or answering in error after it was done.
A delete is by id, by email, or by both. The look-up of ids by email escapes the
email twice and finds none (`FindIds`), while the delete of the rows by email works:
`orphaned` are the ids that lose their row so, and keep account and document.
`mishandled` are the ids with a failed step or with two requests at a time.

### Algorithms

A behaviour picks a task and answers it with the operators translated from the code:
`activeProgramAt`, a day's payload, the shares of providers and cities, the merge
and ranking of the dashboard (or none, when the radio has nothing to give: `Merges`)
with its breakdown by type, the published catalog, and `splitFilter`.
`AlgorithmsRight` compares each answer with what it should be, said another way
(shares add up to the viewers, unless some were raised to one; the program on air is
the calendar's, but for the named cases past midnight). Floating point is a choice:
where a product of fractions should be whole, it may fall short, for the same count
always alike. The loops that keep some members of a list (`Pick`) and the stable
sort (`Sorted`) are defined by counting, in `Selections`: the k-th place goes to the
member with k - 1 others before it.

## Runs

Every passing run explores its whole state space.

| Run | Instance | Shows |
|---|---|---|
| `outbox` | a traffic and an analytics batch, one client, two jobs, limit of two attempts, size limit 5, one mishap, kinds a newer binary adds | types; `NoLostAck`, `DedupeBacked`, `OneHome`, `BytesAccounted`, `CopiesAccounted`; `DeadLettersJustified`; refinement of `AtLeastOnce` |
| `outbox_live` | no attempt limit (the default), one receipt rank | `DrainsAfterOutage` |
| `outbox_blocked` | as before, the database refuses the traffic batch | counterexample to `DrainsAfterOutage` |
| `sms_outbox` | two replies, two overlapping cycles, two mishaps | statuses are true (`SentMeansDelivered`), settled stays settled |
| `sms_gateway` | three replies, one gateway, batches of two, two mishaps | copies need failed claims, stranded rows need mishaps, every reply settles or is stranded |
| `sms_double_send` | two overlapping cycles, no mishap | counterexample to `NoDoubleSend` |
| `chat_rooms` | a daily radio program and a TV event in one room, a TV program that keeps its chat; one midnight, one change, one fault | which messages survive, which rooms are open in the end |
| `chat_stale` | the same | counterexample to `FreshDay` |
| `notification_log` | two broadcasts, one individual send, two faults | the lock, the truth of the log, no row stuck |
| `ingest` | three scenarios: a radio batch and a webhook call while the rules change; a video batch while the titles change; a plain batch and a health probe. Batches of up to three records, chunks of one, one fault | `AcceptedIsStored`, `SpotsOnceAndFinal`, `BuiltinNeedsDeprivation`; `EveryBatchStored` |
| `content` | seven parts: catalog, videos, radio, epg, viewers, index, algorithms | `CatalogTrue`, `SyncHonest`, `AlgorithmsRight`; `MirrorsCatchUp` |
| `audience` | six parts: caches, viewers, geo, inbound, chat, users | `CacheHonest`, `ViewersTrue`, `ChatsTrue`, `UsersAgree` |

Why the bounds suffice. In the outbox two jobs are needed for priority, for a second
job of one batch (re-sent after expiry or after a dead letter) and for key order;
more jobs only repeat this, and the invariants proved below hold for any number. Two
attempts pass the limit; the delays (1, then 2 ticks) are `Backoff` with base 1 and
maximum 2, so a delay grows and reaches the maximum. `MaxBytes` 5 admits both fresh
jobs (3 and 2), and no second one once an error text has grown the first. One mishap
is enough for each place a crash can happen, and `CopiesAccounted` is stated in the
number of mishaps. In `sms_gateway` three replies exceed a batch of two, so order
and limit matter. In `chat_rooms` one midnight gives two days and stamps of "never",
yesterday and today; the shared room changes hands between the managers, and one of
its shows keeps what the other clears. The two faults of `notification_log` let a
restart strand a row and the clean-up after it fail, or the clean-up mark a live
send and its final patch fail.

`ingest`: chunks of one record make three statements of the longest batch, so one
can fail between two others; its records are one that both the table and the
built-in list know, one that nobody can read, and one that names its advertiser.
One content of each rule table beside the empty one (`Versions` 1) lets a table
appear, vanish and differ from what was cached. One fault is enough for each
place of a failure; what is safe for more is proved.

`content`: two shows of one title, two administrators, three edits and one lost
request reach overlapping recounts, cascades, and a season filed under two slugs.
Two videos and two faults; three songs with a window of two, so that a song leaves
the window for good. Two radio programs and two TV programs, both without an id and
so with one key; lineups with neither, either and both, one edit and one fault of
the mirror; three
days, of which the hourly job covers two; two indexes, the first with two replicas, two
documents on pages of one, two changes of the rows and one fault. The algorithms
run on days of four slots and two-slot hours, two-day weeks, lists of two rows,
up to four names with counts up to four, six viewers, and filters of five
characters over comma, parentheses and letter: enough for a program past
midnight, for shares that exceed the total, and for a comma inside of parentheses.

`audience`: a time to live of two ticks, one tick for a fetch and one of slack, so
that an entry is younger than, as old as, and older than each; two readers and an
editor; one placement beside "none". A window of one tick, minutes of two, expiry
after two, windows up to five, a history of two snapshots in four ticks: windows,
minutes and the ring all end and overlap, and wide windows outlast the expiry. One
restart and one doubtful commit, with the outbox and without. Three look-ups of two
addresses, one of them the backfill, and two failing answers. Two texts of one
sender and two pushes in all, three routes, two rooms, one change of the program,
two faults. Two calls with messages that mention, are quiet, or come of nobody
known, three users of whom one is an admin by flag and one by role. Two ids of one
email, three requests of which two overlap, two faults.

Deadlock checking is off everywhere: the bounds on jobs, replies, sends, days,
and faults let a behaviour come to rest when they are used up.

### Fairness

`Outbox`: weak fairness of the drainer's steps (one goroutine, scheduled by Go),
of the clock, and of the restart of the container. Clients, operators and the
database owe nothing; the liveness property assumes that the database in the end
stays reachable and the process stays up with its drainer.
`SmsOutbox`: each gateway goes on with its cycle. `ChatRooms`: `runEvery` calls
each manager again, for ever. `NotificationLog`: all requests of a send have time
limits (10 s of the shared client), so each of its steps happens; the clean-up's
timer fires. `Traffic`: a request's own work and the agent's resend are weakly fair.
The steps of `conn` are strongly fair, as a probe can take the mutex again and
again: a Go mutex hands itself to a waiter after a millisecond. Pings end, and the
database comes back. `MCContent`: the scheduler and the indexer's ticker start their
jobs again, and deadlines end every request of a run. `MCAudience` has no
liveness: what runs there are requests, which nobody repeats. Faults, requests,
edits and restarts are never fair.

### Findings

* `outbox_blocked`: README.md promises that the queue replays its batches when the
  database returns. A job whose insert is always refused by an error that is not
  permanent (only decoding, an unknown kind or table, and a missing timestamp
  are) is retried without end. After each failure the drainer sleeps at least as
  long as the job's own backoff, so the job is due when it wakes, and being the
  first in order it is picked again: nothing behind it is delivered.
* `sms_double_send`: the comment in `sms.go` says the claim keeps another poll from
  sending twice. The poll returns the rows it read, not the rows it claimed.
* `chat_stale`: the comment on `activateChatRoom` says each day starts fresh. A failed
  delete is logged, the room is stamped all the same, and the delete is not tried
  again that day.

## Proofs

But for the last three, which are about operators, the theorems of the table are of
the form `Spec => []Inv`, `Spec => [][A]_vars` or `Spec => AbstractSpec`. They hold for
every value of the constants that satisfies the assumptions of the modules. These
give the parameters their types and put no bound on sizes. Besides:

* sets over which something is counted are finite (`Calls`, `Ips`, `Creators`,
  `Docs`): there are finitely many requests, addresses and rows;
* names that the models use for "nothing" are no members of the sets ("none" is
  no address and no room, the two fixed radio jobs are no
  reports), and a show is no season (`IdAssumption`), as they share a set of objects;
* the limits of the reports are natural numbers, that of the shares at least one
  (15, 5, 40 and 20 in the code), and so are the bounds of the tasks;
* the days of `EpgSync` are 1 to some last one, a week has two days or more.

`CopiesAreClaims` and `RepliesRefine` alone have a hypothesis of their own:
`OneCycle`, no two poll cycles at a time, which is how the gateway's document has
it. With two cycles they are false: `sms_double_send` is the counterexample.

| Theorem | Property | Invariant |
|---|---|---|
| `OutboxTypes` | `TypeOK` | one case per action |
| `AckedIsKept`, `DedupeIsBacked`, `JobHasOneHome` | `NoLostAck`, `DedupeBacked`, `OneHome` | `IInv` |
| `BytesAreAccounted` | `BytesAccounted` | itself, with `TypeOK` |
| `CopiesAreAccounted` | `CopiesAccounted` | `CopiesCounted`, `StoredOnce` |
| `DeadLettersAreJustified` | `DeadLettersJustified` | `Verdicts` |
| `OutboxRefines` | `ImplementsAtLeastOnce` | `IInv`; each step maps to a step of the abstract queue or stutters |
| `SmsTypes`, `SentIsTrue`, `SettledIsFinal` | `TypeOK`, `SentMeansDelivered`, `SettledStays` | `Inv` |
| `CopiesAreClaims` | `CopiesNeedFailedClaims` | `CopiesCounted`, `ReadIsPending` |
| `StrandedAreMishaps` | `StrandedByMishaps` | `LostBounded`, `BatchesBounded` |
| `RepliesRefine` | `ImplementsReplyQueue` (of no run) | `ReadIsPending`, `HandOpen` |
| `ChatTypes`, `FreshUnlessDeleteFailed`, `KeptIsKept`, `StampedIsKept` | `TypeOK`, `OldChatsNeedFailedDelete`, `KeptChatsKept`, `StampedDayKept` | `Inv` |
| `NotificationTypes`, `BroadcastsExclude`, `SentIsPushed`, `FinalStatusIsTrue` | `TypeOK`, `OneBroadcast`, `SentMeansPushed`, `FinalStatusTrue` | `Inv` |
| `AcceptedStored`, `BuiltinIsLastResort`, `SpotsFinal` | `AcceptedIsStored`, `BuiltinNeedsDeprivation`, `SpotsOnceAndFinal` | `Inv` |
| `IngestTypes` | `IngestTypeOK` | `ConnInv` with `Inv` |
| `CachesHonest` | `CacheHonest` | `CacheInv` |
| `AddressesSettled`, `WindowsExact`, `SnapshotsOnce`; `ViewersAreTrue` | the conjuncts of `ViewersTrue`; `ViewersTrue` of `MCAudience` | `GeoInv`, `ViewerInv` |
| `StoresAgree` | `UsersAgree` | `UserInv` |
| `SuccessIsKept`, `RoutedRight`, `SendersKnown`, `CopiesAreResends`, `JoinsOnce`, `TellsOnce`; `ChatsAreTrue` | the conjuncts of `ChatsTrue`; `ChatsTrue` of `MCAudience` | `InboundInv`, `CopiesInv`, `ChatInv` |
| `CacheTyped`, `GeoTyped`, `ViewerTyped`, `UserTyped`, `InboundTypes`, `ChatTyped`; `AudienceTypes` | types of the parts; `AudienceTypeOK` | the same |
| `CountsAreTrue`, `ReadyOrMissed`, `CollectionsAreOne`; `CatalogIsTrue` | the conjuncts of `CatalogTrue`; `CatalogTrue` of `MCContent` | `OnDemandInv`, `BunnyInv` |
| `SongsAreKept`, `MirrorsAreHonest`, `ViewsAreCounted`, `ReadsAreComplete`, `IndicesAreTrue`; `SyncIsHonest` | the conjuncts of `SyncHonest`; `SyncHonest` of `MCContent` | `RadioInv`, `EpgInv`, `ViewerInv`, `IndexInv` |
| `ContentTypes` | `ContentTypeOK` | `ContentInv` |
| `OnAirIsRight`; `AlgorithmsAreRight` | `AirRight`; `AlgorithmsRight` | `AnswersRight` |
| `SharesHold`, `MoreViewsFirst`, `SplitsRight` | what `Shares`, `MoreViews` and `SplitFilter` return for any input | none: they are about operators |

*Outbox.* `NoLostAck` is not inductive. `MarkDone` forgets a job, so its batch must
be in the database: `OkMeansStored` says that the drainer holds "ok" only then.
`MarkDead` moves the copy in the drainer's hand, so that copy must be the job
stored under its key: `OneHome`. `EnqueueDuplicate` acknowledges without storing,
so a dedupe entry must stand for a batch that is held or delivered:
`DedupeBacked`. `IInv` is `TypeOK` with these four. The refinement proof uses `IInv`
to show that `MarkDone` is a release of a delivered batch, and that the moves
between pending and dead are stutters.

`BytesAccounted` compares the counter with the cardinality of a set of single bytes,
so it needs no sum: storing a record adds a disjoint interval of bytes, removing
one takes it away, and the cut at zero in `addPendingBytes` never bites.
`CopiesAccounted` needs to look ahead (`CopiesCounted`): the copies stored, plus the
jobs held that have not made theirs, are at most the jobs admitted plus the mishaps.
An insert moves one from the second number to the first; a crash after the
insert, or an ambiguous answer, gives the job another copy to make and counts as
a mishap. `Verdicts` has what `MarkDead` relies on: nothing is in hand while the
process is down, so "permanent" was said by the binary that is running, and with
a limit every pending job has an attempt left.

*SmsOutbox.* The rows in a cycle's `ok` set were delivered; then a report that writes
"sent" tells the truth, and a claim only changes rows still pending. For the copies
each row has two credits, one until it is claimed and one while it is in hand to be
sent; only a failed claim leaves it with both, and that one cycle runs at a time
makes what was read still pending (`ReadIsPending`). `Lost` has the rows in
"sending" that no cycle will settle: only a mishap of the last cycle that holds a
row loses it, so a mishap adds at most the batch of its own cycle, and that cycles
overlap does no harm (`LostBounded`).

For the refinement of `ReplyQueue`, what a cycle has in hand after its claim is not
settled until the cycle reports it, and is still pending only after a failed claim
(`HandOpen`). No run has this property; adding it to `SmsGateway.cfg` lets TLC check it,
and to `SmsOutbox.cfg` refute it for two cycles.

*ChatRooms.* The theorems hold for any shows in any rooms; nothing keeps two apart.
`StampedDayKept` and `OldChatsNeedFailedDelete` need the order of dates: no stamp and no
run is ahead of the clock (`DatesInOrder`). The stamp of a room is not ahead of a run
that is still to open it, as long as its manager was the last to open the room and
wants it for one show (`OwnStampsInOrder`). A run chooses to clear only for a show that
does not keep, and then its own room still has an older stamp (`ClearingIsDue`);
between clear and stamp only messages of the run's day or later arrive
(`ClearedForRun`), which holds in shared rooms too, where both managers write.

*NotificationLog.* `StepTellsPushed` ties the step of a send to whether it was pushed;
`OneBroadcast` is an equality between lock and live broadcasts, which makes it
inductive.

*Traffic.* `Progress` says how far a request has come: every readable record before
the next has its row in hand, and every row before the next chunk is stored. An
accepted batch is one whose last chunk was stored, so all its rows are. A chunk
stores, of the rows of one key, the first; that there is a first is the
well-ordering of the numbers (`Least`), which the proof gets from the library's
theorem on finite sets ordered by inclusion. `Sourced` says that no request has the
built-in list in hand unless the rules were once unreadable or empty. The types
take in the mutex of the connection, so they need its protocol: whoever dials or
pings holds it and nobody else does (`Mutex`), only a request that inserts or loads a
table asks for the connection (`Asking`), and a plain batch has one copy for each
fault and one if it was accepted (`Counted`).

*Caches.* An entry's staleness exceeds its age by a fetch at most (`Dated`), because
what a reader has in hand is no staler than its request is old (`InHand`). A change
that was no delete leaves its mark in `updated_at` (`Traced`): the newest one is at
most as old as the entry's staleness, so a probe that sees nothing new proves that
the entry is current, or was outdated within the fetch that built it.

*ViewerStats, GeoCache.* A session is as it was last heard of, or so old that the
clean-up took it (`HeardOf`), so what a window of any width lacks was last heard of
before the expiry. The ring is in order and not ahead of the last snapshot
(`InOrder`); a minute that the job has still to come to has one row, or one accepted
job of the outbox, less than it may have (`Paced`). What the outbox accepted of a
minute is still queued or was stored, and stored again only by a doubt
(`Accounted`). Only one look-up asks for an address that did not clash, and only
while nothing is known of it (`AloneAt`); each guess is a failed look-up of its own.

*UserStores.* `HalfWay` lists, for each step of each request, what the three stores
hold of the ids it is about; `Exclusive` says that no other request is about them
unless they count as mishandled; `Fresh` that an id never issued is nowhere. An id
that no request is about is `Settled`: the stores agree, or its row is gone by a delete
of its email while account and document agree, and a change of role that follows
keeps it so.

*Inbound, ChatMessages.* `Placed` ties the message to the step of its handler:
routed to a room that was on air, written, and either early or in a room stamped
today. The manager deletes only from a room that has no stamp yet
(`ClearsUnstamped`). A text of an escaped station is never written. For the copies,
`Chances` are the pushes of a text that wrote it, may still write it, or may be sent
without any fault; a fault makes one more, so there is one and one for each fault.
`Joins` counts who is about to be inserted as a participant: outside of an overlap
one call, and only while the user is absent. `Tells` carries each of the three reads
to the pushes: who is due is in one of the lists unless a read failed.

*OnDemand, BunnyVideos.* A count is right unless it is `Covered`: it is in doubt, or
some request is `Obliged` to recount it, as its list of recounts has it, or it
made a season and goes on to the episode whose recount comes after. A request that
fails puts what it was obliged to into doubt, and so does an edit between another
request's read and write of the count. `Delivered` says that an episode written as
processing has its last webhook still to come, or is counted as missed, or its video
failed and it has no guid. `Collected`
says that the request that makes the collection is alone, and that those after it
find it; `MayMake` bounds the collections by the requests.

*RadioSync, EpgSync.* An insert that a row of its songs will refuse has all its songs
excused (`Forewarned`): its own check failed, or another run stored one of them since.
So a refusal loses no song that is not excused. While the lineup stays as it is, its
keys are all that any run writes, whatever overlaps (`KeysOfLineup`), and an insert is
refused only for a key that is there twice, or by an overlap (`RefusedFor`). Until two
runs overlap there is one run (`OneMirror`), which fills tables it has emptied
(`Filling`); what it has in hand is what the tables still lack (`Copying`), so at its end
they agree (`TablesAgree`). `CountsPast`
says that the viewers' jobs have in hand only days that are past or today, and a
count that their day has had.

*Indexer.* While no row is deleted under a read, every row that was there all the
while and comes before the offset has been read (`ReadSoFar`). A page turns the rows
of the ranks it covers into read ones; new rows only move the others back. This
needs ranks of a finite set of numbers to be 0, 1, 2, ... without gaps
(`RanksAreInterval`) and that a short page is the last one (`PageLemma`). `Emptied` says
that an index is gone or empty when its load begins, unless its delete was refused.

*The algorithms.* Induction over data is not available, so nothing here is proved by
it. `Pick` and `Sorted` count instead of recurring, and what they return follows from
one lemma on finite orders: the places are 0, 1, 2, ... without gaps (`Places`). The sums
and the two folds over sequences are recursive functions of the community modules;
that they have a solution is `FoldExists`, by the least number of members for which
there would be none, and from it sums are what one expects (`SumsExist`,
`SumsCompare`, `SumRenamed`), and a loop has its states one after the other
(`StepsExist`). Statements about all states of a loop go by the least state that
would break them (`Upwards`).

`OnAirIsCalendar` compares `activeProgramAt`'s condition with the calendar's by
arithmetic, for a day of any length; `WhatAirsIsDue` and `WhatIsDueAirs` compare it
with that of the day's payload. `SharesHold` rests on the parts of the whole
adding up to no more than it (`PartsAddUp`), and on what is left over going to the
first. The dashboard's rows are `Arranged`: each has one place, so no row is lost or
doubled by the sort, and what the limit cuts off has no more views than what it
keeps (`TopRows`). In the catalog the seasons are counted from the end, and
`MirrorRanks` says that what came before a season is then what comes after it.
`SplitsRight` follows the loop: at each character its depth is the true one and it
has a piece for each comma outside of parentheses (`InStep`), and the pieces with the
current one are the filter so far (`PrefixCovered`). `AnswersRight` says of each kind of
answer that it is right and of a task of that kind; it is inductive, since a task is
answered once.

The proof found a fault in an earlier form of the model, which let the shares of two
equal counts round differently, so that they did not fall: equal counts make equal
products, in floating point as well. TLC had not met it with five viewers: it takes
three names of equal count and two viewers each, which the run now has.

*Several parts.* `MCAudience` and `MCContent` run one part at a time. A behaviour of the
whole is one of each part (`PartsRun`), or the conjunction of the parts' invariants
is inductive (`ContentInv`; the viewers' jobs draw their faults from the mirror's
bound, which is the one place where a step of a part touches another's variable).

Only model-checked, because out of reach of the prover: liveness under fairness
(`DrainsAfterOutage`, `EveryReplySettled`, `RoomsFollowAir`, `NoRowStuck`,
`EveryBatchStored`, `MirrorsCatchUp`), whose proofs would need ENABLED. All
invariants and action properties of the passing runs are proved. Where a task of
`Algorithms` has fixed inputs (one station, one show, views up to two),
`AlgorithmsAreRight` is about tasks of that form; `SharesHold`, `MoreViewsFirst` and
`SplitsRight` are about any input. `Backoff` is a recursive function that only gives
constants to runs: the proofs take any delays.
## Not modelled

`PROJECT.json` gives the reason for each component. In short: handlers that make
one request and reformat the answer have no behaviour to check. These are the
news, the image uploads, the playlists, the affidavits and reports over
TimescaleDB, GA4, BigQuery, the country report of the live statistics and
OvenMediaEngine's native figures, `main.go`'s dispatch and authorisation, and the
configuration of the mesh. The tables provide for WhatsApp, but no code in the
repository receives it.

Taken as given: Postgres transactions and its unique keys, bbolt's durability,
FCM's delivery, OpenSearch's answers, and replicas that are in step when the
indexer turns from one to the next.

Left out of modelled parts, each because no property depends on it: sends to single
devices inside a fan-out, since only their number is used; a `limit=200` on the list
of open rooms, as a run closes the rest a minute later; the write-back of
`tv_program_id`; corrupt outbox records, which only this code writes; a bbolt
failure of `markDone` after the insert (`outbox.go:281-283`), which leaves the job
to be inserted again and would be one more mishap of `CopiesAccounted`; the summary
figures of the dashboard's merge; posters and images of episodes. The PATCH of the
Firestore document has no update mask, so it replaces the document; only its role is
modelled.

Behaviours the models do show, and which the properties state as exceptions
rather than hide:

* the texts of a station whose id has a space, or anything else that escaping
  changes, are dropped though a program is on air (`RoutedByTheAir`);
* a delete by email alone leaves the account and the document of the user, without
  a failing step (`UsersAgree`); the comment on `handleDeleteUser` says that it purges all
  ids that match the email;
* two TV programs without an id, or two radio programs of one name, keep
  `epg_metadata` empty for as long as both are in the lineup, and stop the second table
  from being filled (`MirrorsHonest`, `EpgSettled`); a mirrored table is empty between
  truncation and fill; a radio lineup that becomes empty keeps its old rows;
* a failing check of the song history loses the new songs of its run, which one
  that is stored already refuses (`SongsKept`): for good when they leave AzuraCast's
  window before a run succeeds;
* windows wider than two hours lack the viewers that the clean-up has removed
  (`WindowExact`), and an insert of the outbox whose commit reports an error gives a
  minute a second row (`OneSnapshotPerMinute`);
* a daily program whose room an event shares deletes the event's messages
  (`KeptChatsKept`), and so may the slower of two managers, those of the new day
  (`StampedDayKept`);
* a failing or overlapping edit of the catalog can leave a count wrong until that
  object is counted again (`CountsTrue`);
* a webhook that comes before its episode's row leaves the episode processing, and
  so does the failure of a video whose row has only the URL (`ReadyUnlessMissed`);
* a guess of the GeoIP cache can replace an answer when two look-ups overlap; a
  refused deletion of an index leaves documents whose rows are gone; and the chat
  managers take a program that crosses midnight for on air by today's weekday alone.

## Plan

All safety invariants and action properties of the passing runs are proved. What is
left to take up:

1. abstract specifications beside `AtLeastOnce` and `ReplyQueue`: a table that goes from
   one complete content to the next, refined by an index rebuild without refusals;
2. action properties: what a step of the catalog, of the chat or of the users' stores
   may never take away;
3. replicas that lag behind one another in `Indexer`, and the rotation of
   OvenMediaEngine's native statistics.
