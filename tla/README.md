# PGEA: verification of the event platform

TLA+ models of the back end in `src/backend/app` (FastAPI, SQLAlchemy, PostgreSQL
at READ COMMITTED, and a worker process). The platform publishes events, sells
their seats, and sends mail and certificates in the background.

## 1. Inventory

| Component | State | Operations | What makes it correct |
|---|---|---|---|
| Enrollment (`enrollment_service.py`, `enrollment_repository.py`, `entities.py`) | tables `enrollments`, `webhook_events`; the lock of the event row | register, payment webhook, cancel | no seat sold twice; a payment confirms once; legal transitions only; locks released |
| Sweep (`worker.py` `_expire_reservations`) | the same rows | expire the lapsed reservations every 30 s | lapsed seats come back; never takes a confirmed seat |
| Job queue and worker (`postgres_queue.py`, `worker.py`) | `queued_jobs`, `failed_jobs`; the job in hand of each worker | enqueue, claim, handle, complete, fail, retry | one worker per job; bounded repetition; nothing lost; one dead letter |
| Payments of a reservation (`payment.py`, `enrollment_service.py`) | the row of an enrollment over its reservations; recorded keys | register again, deliver any status late, repeated, in any order | one payment per reservation; the answer says what was stored |
| Event lifecycle (`event_service.py`, `event_repository.py`) | `events` | create, update, publish, approve, reject, cancel | the state machine holds under concurrent edits; a cancelled event stays cancelled; a published one has its embedding |
| Catalogue cache (`cache.py`, `search_service.py`) | entries with a TTL, in each process | search, invalidate | no reply older than the TTL; changes show in the end |
| Search strategies (`search_strategies.py`, `curated_search.py`) | none; reads `events` and `event_embeddings` in up to three ways | search a page | pages list every event once; a way that fails does not break the search |
| Confirmation handlers (`enrollment_handlers.py`) | rows of the confirming transaction | audit, enqueue mail | exactly one job per confirmation |
| Notifications (`notification_service.py`, `notification_repository.py`) | `notifications`, `notification_deliveries` | broadcast, notice of a cancellation, progress | every recipient is told or reported failed |
| Certificates, attendance, evaluations (`certificate_service.py`, `engagement_service.py`) | `certificates`, `attendance`, `evaluations`, PDF files | request, batch, check in, evaluate, render | attendance before certificate; one certificate per user and type; ready means downloadable |
| Agenda, speakers (`event_service.py`, `engagement_service.py`) | `event_sessions`, `event_speakers` | add session, invite, respond | no overlap in a track; a token is used once |
| Accounts (`auth_service.py`, `deps.py`, `admin_service.py`, `privacy_service.py`) | `users`; tokens | log in, refresh, set role, export, erase | one account per e-mail; claims no older than a token; erased stays erased |
| Request pipeline (`middleware.py`, `deps.py`, `db.py`, `exception_handlers.py`) | the connection pool, `audit_log`, the access log | admit, deny, handle, commit, answer | the status tells the outcome; a change has its audit row; nobody waits for ever |
| Statistics, metrics, log shipping, adapters, front end | none that others depend on | queries and I/O | not modelled (section 6) |

Components meet in the database only. A request is one transaction
(`db.py`, `get_session`); the worker opens its own. Requests hand work to the
worker by writing `queued_jobs` in their transaction (outbox). There is no message
broker and no lock outside PostgreSQL.

Hard behaviour, all of it in `PROJECT.json` under `hazards` with its line:
rows selected, decided on, and written back later without a lock; one pessimistic
lock (registration only); duplicated and late webhooks; a clock that ends
reservations while requests are in flight; a worker that dies between two
transactions, or is not told that a commit succeeded.

## 2. Modules

Every component has a module, an instance of it for TLC (a module `MC...` and its
`.cfg`), and where listed a module `...Proofs` of theorems.

| Module | What it is | Theorems |
|---|---|---|
| `Enrollment` | registration, webhooks, cancellation and sweep as concurrent transactions, many rows | `EnrollmentProofs` |
| `SeatLedger` | the abstract promise about seats; `Enrollment` refines it (`ImplementsLedger`) | `EnrollmentProofs` |
| `Payments` | the same transactions on one row, with reservations and payment references told apart | `RecordsProofs` |
| `JobQueue` | `queued_jobs`, `failed_jobs` and the workers | `JobQueueProofs` |
| `EventStates` | the abstract state machine of an event | `EventLifecycleProofs` |
| `EventLifecycle` | the requests that change one event; refines `EventStates` when they do not overlap | `EventLifecycleProofs` |
| `Broadcasts` | notices and messages, with registrations and, as an instance, `JobQueue` | `BroadcastsProofs` |
| `Catalog` | the cache of the catalogue against commits | `CatalogProofs` |
| `Search` | the strategies of a search and its pages | `SearchProofs` |
| `Certificates` | attendance, evaluations, certificates and their rendering | `RecordsProofs` |
| `Agenda` | the sessions of an event | `RecordsProofs` |
| `Speakers` | invitations and their answers | `RecordsProofs` |
| `Accounts` | users, tokens, roles, erasure | `RecordsProofs` |
| `Records` | six components that share nothing, in one specification: `Payments`, `Search` and the four above | `RecordsProofs` |
| `Requests` | the life of a request: admission, connection, transaction, audit, answer, access log | `RequestsProofs` |

`Broadcasts` composes registrations, cancellations and the queue: `Queue` is
`JobQueue` with the deliveries as jobs and the queue's variables its own, each of
its mails runs the actions of `JobQueue`, and `ImplementsQueue` says that the
composition keeps the queue's specification. `Records` puts `Payments`, `Certificates`,
`Agenda`, `Speakers`, `Accounts` and `Search` side by side: six components that
share no table and call nothing of one another; `MCRecords` is its small instance,
and `ComponentsBehave` proves that a behaviour of it is one of every component. The transactions of `Enrollment` and
`Payments` are the same code at two levels of detail: the first counts seats over
many rows, the second keeps the columns that tell two reservations of a row apart.

Definitions whose comment says *Seeded fault* are variants with a plausible bug.
No specification uses them; put in place of the definition that follows them, each
makes the property listed for it under `mutants` fail.

### Enrollment

A transaction is a record in `tx`: its operation, its next step, what it has read,
and what it has written and not committed. The steps are the database calls.
`RegisterGetEvent` (the event is read, before any lock), `RegisterLock`
(`FOR NO KEY UPDATE`, then the duplicate check), `RegisterCount`, `RegisterFlush`,
`CommitRegister`. A webhook, a cancellation or a sweep begins by reading its rows
(`WebhookConfirm`, `WebhookReject`, `Cancel`, `SweepList`), and for each of them
runs `EnrollmentRepository.update`: `Reload` selects the row again, `Flush` waits
for the row lock and writes. An UPDATE writes only the columns in which the entity
differs from the row last selected (`ColumnDiff`), as SQLAlchemy does. Writes of
others become visible at their commit; `eventLock` and `rowLock` are held to the
end of the transaction. `Abort` is a timeout, a lost connection or a crash;
`Victim` is the deadlock detector of PostgreSQL.

An enrollment row is its status and `reserved_until`, and its identity the pair of
event and user (UNIQUE, and rows are reused). `ceiling`, `revived` and `applied`
are history variables.

Merged steps, and why that loses nothing:

- The clock read and the SELECT of the sweep, which the code runs one after the
  other: a later SELECT could only see more rows already past the earlier time.
- `is_processed` and `get` of a webhook. A key recorded between them is found at
  the commit by the UNIQUE constraint, as in `WebhookKeyTaken`.
- The INSERT into `webhook_events` and the commit. A concurrent INSERT of the same
  key waits for that commit and then fails.
- The two reads of `cancel`.

Others: an UPDATE without any changed column is not sent by SQLAlchemy; the model
still takes the row lock, which only adds waiting. The gateway is the mock's: a
paid registration gets a fresh reference, known to the client after the commit,
and deliveries of it come in any number and order, with any outcome. The organizer
(`EditEvent`) may commit any row of `EventRows`: a superset of `EventService`.
`outbox` is the set of enrollments whose confirmation mail has been put in
`queued_jobs`, in the transaction that confirms (`PublishConfirmed`); what becomes
of the job is in `JobQueue`. A handler whose database call fails is only logged,
but the session is then unusable and the transaction rolls back: an `Abort`. The
audit rows are left out: each is written in the transaction whose effect it
records.

### SeatLedger

Seats are sold only while one is free and are released; a seat may also be
*retaken*: a transaction that is not a registration makes an enrollment active
again after its seat was released, and nothing bounds those seats. `sold` maps to
the active enrollments outside `revived`, `retaken` to those in it, `capacity` to
`ceiling`.

### JobQueue

A job's row is its status, attempts and remaining wait (`next_retry_at <= now` is
`wait = 0`; one unit per `Tick`). A worker is idle, has claimed a job in an open
Tx1 (`claimed`), runs the handler (`working`), has had its external effect
(`acted`) or found nothing to do (`skipped`), or is about to record a failure
(`failing`). `CompleteUnheard` is a commit that took effect and raised in the
worker. `Drop` is the loss of the worker, or an exception in Tx1 or in the failure
transaction, which `main()` only logs. `created_at` is the start of the request's
transaction, so a job may become visible after a younger one: `Created` is a
constant and `Enqueue` unordered. `sent`, `skipped` and `dropped` are history.
`Skip` is allowed to every job, although only two handlers have that path.

### Payments

`row` is the one enrollment of a user in a paid event, reused for every
reservation; reservations, their `reserved_until` and their references are
numbered alike, and `lapsed` is the clock. A request holds the entity it read and
decided on (`entity`), the row `update()` selected again (`loaded`) and what it has
flushed (`write`). A webhook names the row, not the reservation. `paid` and
`together` are history.

### EventLifecycle and EventStates

A request reads the event (`Begin`), decides (`UpdateEvent`, `PublishEvent`, ...),
and writes through `EventRepository.update`: `Reload`, then `Flush` of the columns
that differ, under the row lock PostgreSQL gives an UPDATE. A publication also
stores the embedding by a statement of its own (`SetEmbedding`), or does without
when the adapter fails. `Texts` stand for everything else an organizer edits.
With `Overlap = FALSE` a request starts only when none is open.

### Broadcasts

One event and the people enrolled in it. A registration reads the event, locks its
row and loads the enrollment, and commits without looking at the event again
(`RegisterRead`, `RegisterLock`, `RegisterCommit`; `RegisterEnd` is a refusal or an
abort). `Changes` are everything else that writes an enrollment: a payment webhook,
a cancellation or the sweep loads it (`ChangeRead`) and writes a successor of what it
loaded (`ChangeCommit`); none of them locks the event or reads its status, so a
webhook confirms a payment before, between or after the steps of a cancellation.

A cancellation (`Cancels`) reads the event, selects it again (`Reload`), updates it
under its lock (`Flush`), lists the confirmed (`ListRecipients`) and writes status,
deliveries and jobs in one transaction (`CommitRequest`). An update (`Patches`) is
the same without the list, and writes the status it read: one that read the event
before its cancellation brings it back. A message (`Messages`) only lists, any of
the segments. The submission and rejection of a draft are left to `EventLifecycle`:
nobody is enrolled in a draft. `writer` and `after` are history: the request that
wrote the status last, and for each cancellation the users who came too late for it,
because they locked the event when it was cancelled or their payment was confirmed
after its recipients were listed.

### Catalog

One process's cache. A search that misses reads the table (`Select`) and fills
later (`Fill`); a request that changes events invalidates before it commits, as
the code does, except `reject` and anything in `Silent`, which do not invalidate.
`falseFor[f][rows]` is history: for how long `rows` has not been what the filters
`f` select, capped at `Ttl + Delay + 1`. A SELECT takes at most `Delay`.

### Search

A client asks for page after page (`Ask`, `NextPage`). A semantic search tries the
curated topics, the vectors and the text in turn, each a read of its own. In between
an event may be published, cancelled or updated (`Change`): a visible one may get
another title, date or whatever else the queries look at. A publication embeds what
it publishes, an update does not. History: `steady`, the events that have matched the
query ever since the first page; `titled`, those that have had a curated topic; `held`,
`gone` and `came`, the places (event and date) that matching rows have had, left and
taken since. A row that ties on its date may be placed
anywhere among its ties. `SelectFails` is an error of the vector query in the
database: the transaction is aborted and the text search fails too.

### Certificates, Agenda, Speakers

Each request is a transaction of reads followed by a commit that applies the
rows it inserted; a UNIQUE constraint (of attendance) makes an insert
fail (`collided`). `overlap` is history: the pairs of requests that were open at
the same time. An answer to an invitation waits for the row another one has
updated, and then finds it by its id. The worker's part follows `JobQueue` without the backoff:
`Claim`, `Render` (the file), `Complete` (URL and `done`), `CompleteUnheard` (the
same, and the commit raises in the worker) and `Fail`, which puts a job back or gives
it up without looking at its status, nor at the certificate. `everUnheard` is history.

### Accounts

Accounts have an e-mail and a role; a token carries the claims of its account at
the moment they were read, and ages with the clock. `Stale` is how long claims
have not been true; `shown` is the worst ever admitted. Writes are column-wise, as
everywhere. The UNIQUE on the e-mail makes the second of two inserts wait, and
fail once the first is committed. Which fresh id (or, in `Certificates`, code) an
insert takes is fixed by `CHOOSE`: nothing tells fresh ones apart.

### Requests

`pc` follows the request through `OTelMiddleware`, the dependencies, the handler,
`get_session`, and back. A session takes a connection with its first statement and
keeps it to its commit or rollback, which (FastAPI 0.115) come before the response
is sent. `CommitFails` covers a commit that took effect unheard. Handlers are
four: one that changes and audits, the audited export, the list of enrolled people
(not audited), and the catalogue.

## 3. What the runs show

| Run | Instance | Shows |
|---|---|---|
| `seats` | 1 event that moves between three rows (capacity 1 or 2, free or paid, taken down), 2 users, 1 payment key, 2 requests, 1 worker, clock 1..3, reservations of 1 tick | sales within the largest capacity; the inductive invariant `SeatsClaimed`; a key confirms once; every confirmation has its mail (`ConfirmedIsMailed`); refinement of `SeatLedger`; no deadlock |
| `live` | 1 paid seat, 1 worker; fairness; both requests may abort at any step | lapsed reservations are settled; every transaction ends |
| `workers` | fairness; 2 sweeping workers, 2 paid seats, 2 keys | lock waits end although two sweeps lock rows in opposite orders |
| `faults` | 2 jobs of different requests, 2 workers, any crash and any unheard commit; fairness | no job is held twice, forgotten by a retry, sent beyond its budget, dead-lettered twice or taken up again after it settled; every job settles unless its worker is lost with it |
| `ev_races` | 4 requests (owner and administrators), 2 texts | status changes follow what their writer read; embeddings stay |
| `broadcasts` | 1 user and 1 change of its enrollment at a time, 2 cancellations, 1 update, 1 message, a worker that crashes and misses commits, 2 attempts; fairness | who may miss the notice, and why nobody else does; the composition implements `JobQueue`; deliveries settle |
| `catalog` | 2 events, 2 filters in a cache of one entry, 2 searches, 2 writers, TTL and SELECT of one tick; fairness | staleness is bounded; which races make an entry stale; the cache catches up |
| `requests` | 2 requests, a pool of 1, every failure and restarts; fairness | status tells outcome; audit is atomic; the log agrees; every request is answered |
| `records` | six components, see below | payments, certificates, agenda, invitations, accounts and pages go wrong only where requests overlap, and how far |

`records` checks the six components of `Records` in one state space. `focus` is
chosen at the start and names the component that takes steps; the others stay as
they began. This loses nothing: no action of one reads or writes a variable of
another, and every property is of one component, so it holds of their
interleavings iff it holds of the component's own behaviours, which are the
behaviours with that focus. Their instances:

| Component | Instance |
|---|---|
| Payments | 2 reservations of one row, 2 requests, any outcome |
| Certificates | 1 user, 2 types, 2 codes, 3 requests, a worker with 2 attempts |
| Agenda | 1 track, 2 sessions on 4 instants |
| Speakers | 2 invitations, 3 answers |
| Accounts | 3 accounts (one an administrator's), 1 free e-mail, 2 clients, tokens of one tick |
| Search | 2 events, pages of one, 1 change, every strategy |

Requests that are served once each are alike except for their name, so `InOrder`
lets them begin in one order only; the requests of `Payments`, which are served
again, the clients of `Accounts` and the events of `Search` are symmetry sets. Of
`Search`, one change between two pages or two reads is what a page or a way can miss;
`HiddenSaysNothing` fixes what an event says while no search can see it. In
`broadcasts`, the message comes without the update and the second cancellation
(`Few`), and what follows an unheard commit is looked at only while those two are idle
(`Heard`): the mails of different requests meet in the queue only, which `faults`
explores with two jobs and two workers. `ImplementsQueue` and `NoticedUnlessLate` are
theorems without these constraints.

`TypeOK` of every module is a theorem, and so are the strengthenings the proofs
rest on (section 4); the runs spend their time on the other properties, but for
`RecordsTypeOK`, which `records` also checks.

Bounds: the clock stops at `MaxNow` (a reservation starts, lapses and is swept
within three ticks); `KeyBudget` lets a paid registration start only while an
unused payment key is left; `MaxRetries` and `BackoffCap` are small so that the
last attempt and the cap are reached. Two users and one seat are the least that can
oversell; the edits of the event let the capacity fall below what is sold. The
proofs remove the bounds for the safety properties. One event is enough because no
step touches two events except the sweep, whose rows are treated one by one.

In the other modules a race needs two requests and a bystander at most, so two or
three requests reach every interleaving of a read and a write; reservations,
attempts, ages and instants are bounded just above the value at which the
property could fail (the second reservation, the attempt after the last, the tick
after the TTL).

Three runs end in a violation and are listed under `findings` with the lines of the
repository they contradict:

| Run | What happens |
|---|---|
| `oversell` | a payment confirms a reservation that lapsed and whose seat was sold again |
| `expires` | the sweep writes `expirada` over a confirmation it had not seen |
| `restart` | a job whose worker is lost after Tx1 stays in `processing` |

For each of them a passing property says what does hold: `SoldWithinCapacity`,
`ConfirmedIsMailed`, `SettlesUnlessLost`.

### Other disagreements met while modelling

The modules contain the behaviours below; the property named says how far they go.
Each disagrees with the line quoted.

- A PATCH or a publication that read an event before it was cancelled brings it
  back (`event_repository.py:59`; `StatusFromWhatWasRead`). `entities.py:60` gives
  `CANCELADO` no successor.
- A registration that read an event before its cancellation enrolls after the
  recipients of the notice were listed, and is not told (`event_service.py:160`); nor
  is a user whose payment a webhook confirms after the list, or after the cancellation,
  since it neither locks the event nor reads its status (`enrollment_service.py:133`);
  nor is anybody when a stale update writes `cancelado` (`NoticedUnlessLate`). `OrganizerPortal.vue:57`: "Se notificará a los inscritos."
- A delivery whose job was given up counts as pending for ever: nobody calls
  `set_status` or marks a delivery `failed` (`notification_repository.py:82`;
  `EveryDeliverySettles`). `notification_service.py:5`: "El estado por destinatario
  queda consultable".
- Two overlapping requests issue a certificate twice, and every later request of
  that user then fails in `get_for` (`certificate_service.py:35`); of two overlapping
  recordings of one attendance, one ends in an `IntegrityError`
  (`engagement_service.py:91`; `RepeatedOnlyTogether`). `engagement_service.py:90`:
  "Idempotente: si ya tiene asistencia, no reinsertar".
- Two overlapping sessions of a track are both added (`event_service.py:175`;
  `OnlyConcurrentSessionsClash`). `support_repository.py:76`: "Detecta solape de
  sesiones del mismo track (RF-09)."
- An invitation is answered twice with its token (`support_repository.py:130`;
  `OnlyConcurrentAnswersRepeat`). Line 138: "token de un solo uso (RF-10)".
- A failed vector query aborts the transaction in which the text search then runs
  (`search_strategies.py:93`, `SelectFails` in `Search`). Line 12: "como respaldo,
  sin romper la experiencia". The curated and the vector search take no offset, so
  every page repeats the first (`search_strategies.py:79`; `PagesListAll` is
  claimed for the text search).
- An event edited between the reads of a semantic search, out of what the next way
  looks for and into what the last one did, is found by neither
  (`search_strategies.py:77`; `NothingMeansNone` speaks of the text and of the topic
  apart).
- The 500 of an exception that no handler maps is sent outside of `OTelMiddleware`
  and has no `X-Trace-Id` (`middleware.py:73`; `LoggedAsSent`). `src/README.md:235`:
  "Cada respuesta HTTP incluye `X-Trace-Id`."
- The list and the export of enrolled people return personal data and append
  nothing to the audit log (`enrollments.py:77`; `AuditedAs` in `Requests`).
  `privacy_service.py:36`: "Cada acceso a PII queda auditado (RN-07 d)."
- A rejection of an enrollment that is confirmed is answered `expirada` and changes
  nothing (`enrollment_service.py:144`). `PaymentMockView.vue:33`: "Pago rechazado:
  se liberó el cupo."
- Two webhooks at the same time: the one whose columns were already written stores
  no status, and a cancellation in between stays although both are answered
  `confirmada` (`enrollment_repository.py:143`; `ConfirmedIsStoredUnlessTogether`).
- Every status but `confirmed` expires the reservation, `approved` among them
  (`enrollment_service.py:132`), which the webhook of `GUION_DEMO.md:209` sends.
- The PDF of a certificate keeps the name of an account erased since
  (`privacy_service.py:58`). `GUION_DEMO.md:252`: "sin PII identificable".

Outside of any documented promise: a rejected webhook of an old payment expires a
newer reservation of the same user (`EarlyEndIsARejection`), and two keys can
confirm one reservation when they are served at the same time
(`PaidTwiceOnlyTogether`); an unheard commit makes `fail_job` revive a job that is
done (the exception in `SettledForGood`).

### Fairness

`Enrollment`: the clock moves; a worker sweeps for ever; a step of an open
transaction that is enabled again and again is taken (strong fairness: the event
loop resumes it, and PostgreSQL queues the waiters of a lock); the deadlock
detector runs. No fairness is assumed of requests, webhooks or edits. With two
workers the model allows the victim of a deadlock to start its next sweep and take
the row before the waiter wakes, for ever; PostgreSQL wakes the waiter at once and
the victim polls seconds later, but that is a matter of real time, so
`TransactionsEnd` is claimed for one worker and only `LockWaitsEnd` for two.

`JobQueue`: time passes, and each worker's loop goes on (`while True`,
`restart: always`). A handler may still fail every time. `Broadcasts` assumes the
same of its worker. Workers may be lost at any time; `SettlesUnlessLost` and
`EveryDeliverySettles` speak of the behaviours in which that ends, since a worker
lost for ever again does nothing, and except the jobs lost in hand.

`Catalog`, `Requests`: a request that has started goes on, since
the event loop of uvicorn runs it and every SELECT ends; nothing is assumed of
new requests. `Catalog` also lets time pass. In `Requests` a free connection goes
to a request that waits, without any order.

`CHECK_DEADLOCK FALSE` is set where requests are served once and the instance
really ends.

## 4. What is proved

The theorems hold for every value of the constants that satisfies the module's
`ConstantsAssumption` (`QueueAssumption` in `JobQueue`). The modules that `Records`
instantiates state theirs as a definition, which `Records` assumes by name
(`CertificatesAssumption`, ..., `SearchAssumption`) and TLC evaluates.

Every invariant and every property of a step that a run checks is stated by a
theorem; what is only model-checked is liveness (end of this section).

Enrollment. The invariant is `TypeOK /\ SeatsClaimed`, with an auxiliary one on the
keys. `SoldWithinCapacity` is not inductive: a registration that has counted sells
later. `SeatsClaimed` adds the seats claimed by a registration past its count and
says that it still holds its event lock (`EventLocked`), so an event has at most
one claim (`OneHolder`), counted against at most `ceiling`. Every other step only
shrinks the set of seats counted (`ClaimsShrink`, `TakenShrinks`), or adds to
`revived`. `ConfirmedOnceAlways` follows from: a key was applied only if it is
recorded, and a recorded key cannot commit again.

`ConfirmedIsMailedAlways`: whoever is about to write a confirmed row is its
registration or its payment, or found the row confirmed and mailed (`MailOwed`);
`Shape` is needed to know that such a transaction writes no other row.

The refinement of `SeatLedger` is `ImplementsLedgerAlways`. A
registration sells because its claim was counted; a webhook or a cancellation
writes one row, so it takes back at most one seat. The sweep writes many, and must
only release: it intends `expirada` on rows that had lapsed, and where a row was
settled meanwhile its UPDATE keeps the status and can only move the end of a
reservation back (`SweepReleases`). That holds because nobody else commits a row
it has locked (`RowsHeld`).

JobQueue. `Safe` joins the properties with what each step of a worker says about
the row of its job (`InHand`) and with the attempts left (`AttemptLeft`):
a job is claimed only while pending and unlocked, and while it is held its status
keeps every other worker away. One lemma per action. `SettledAlways` is about a
step: a worker fails a job that is done only if it did not hear of the commit
(`OnlyUnheard`), and no other step leaves `done` or `failed` (`Resettled`).

EventLifecycle. `StatusFromWhatWasRead` is about a commit; what makes it true is
that a request keeps what it decided (`WritesWhatItDecided`): what it is about to
store is the committed status or the one it decided on. That needs the lock
(`OneWriter`): once a row is flushed nobody else commits a status. The refinement
of `EventStates` (`SerialImplementsStates`) assumes `Overlap = FALSE`; with overlap
it is false, and `StatusFromWhatWasRead` is what is left of it.

`PublishedWithEmbedding` (`EmbeddedUnlessFailed`) needs more than the lock: an
embedding is written before the status, by a request that may lose to others.
`Embedded` says that an uncommitted row has an embedding if the event has one
(`Carries`), that a request that publishes and is past its attempt has one in hand
or is known to have failed, and that any other which means to leave the event
published read it so, when it was already vouched for (`Announces`, `Vouched`).

Broadcasts. `ListedAreAll` says that a registration that has loaded its enrollment
has the event's lock, so while a cancellation has it only webhooks confirm, and its
list stays complete but for those (`after`); at its commit this is
`NoticedUnlessLate`, which afterwards only a registration that finds the event
cancelled, or again a webhook, could break. `Served` adds that who holds the event
for a request knows what status to write. One lemma per actor.
`BroadcastsImplementsQueue` follows the actions of the queue through the
composition.

Catalog. `AgesBoundStaleness` relates the age of rows in a search or an entry to
how long they have been false; `RepliesAreRecent` follows. `OnlyRacesAreStale`
keeps with every fresh entry the reason it may be wrong.

Payments. The two payments of a reservation: a webhook commits a confirmation only
if it had read the row pending, so the other one was served meanwhile. An early
end: whatever is flushed as `expirada` was decided by a rejection or on a
reservation that had lapsed. `StoredUnlessTogether`: a webhook that finds the row
as it read it writes the status itself, and one that does not was served together
with the one that changed it.

Requests. The invariant says what a request holds back until its commit (`Draft`),
what its status will mean once decided (`Decided`), and what left the server
(`Told`); a restart only loses requests whose status nobody has.

Agenda, Speakers. What was under way together is recorded as such
(`AddsTogether`, `AnswersTogether`), a check that passes leaves no clash with
what was committed before it, and what is committed after it belongs to a
transaction that was together with it: so `AgendaInv` and `SpeakersInv` keep, for
every open transaction, that only rows of its companions can clash.

Certificates. `CertInv` says what a transaction has read and may still rely on, as
attendances only come (`CertReads`), what its uncommitted certificates may meet
(`CertDraft`: a fresh code, a user drafted once, and any certificate of that user
issued by a request that overlaps), and that the job of a certificate, its URL and
its file go together at every step of the worker, unless the commit of one went
unheard (`CertJobs`). `ReadyIsThere`,
`AttendanceFirst` and `RepeatedOnlyTogether` follow.

Accounts. `AccountsInv` says of the row a request is about to write that it has an
id and an e-mail of its own if it inserts, and else changes an e-mail only to that
of an erased account: hence one account per e-mail, and nothing erased returns.
`ClaimsAreRecent` keeps, for every token, that its claims are false for no longer
than its age and the step that issued it.

Search. `SearchProofs` counts. A SELECT returns every row once (`RowsOnce`), and an
event without ties has one place in its order, after the events before it
(`PlaceOf`), so a page lists it once or not at all (`TextTimes`). `Followed` is about
an event that nothing ties with: while no row before it leaves its place, it is not
behind the pages unless they listed it; while none takes one, what they listed stays
behind them. An update of the event itself, or of one before it, is
a place left and one taken (`gone`, `came`). `NothingYet` carries to the ways that
follow that no event has had the topic ever since, once the curated titles found none.

Records. `ComponentsBehave` and `SameSearch` (the `Search` of `Records` is that of
`SearchProofs`) carry all this to the specification that the run explores:
`RecordsTypeCorrect`, and `RecordsCorrect`, which states every other property of
the run.

Only model-checked: everything about liveness (`LapsedIsSettled`,
`TransactionsEnd`, `LockWaitsEnd`, `SettlesUnlessLost`, `EveryDeliverySettles`,
`SearchesCatchUp`, `EveryRequestAnswered`), which needs ENABLED and is out of the
prover's reach. Only proved: the type invariants other than `RecordsTypeOK`, and
`OneWriter`, `WritesWhatItDecided`, `ListedAreAll`, `AgesBoundStaleness`,
`RecordedMeansSent` and `SerialImplementsStates`.

## 5. Where to go on

- `Enrollment` composed with `JobQueue`: how often the mail of a confirmation is
  sent. Today the job is committed with the confirmation (`ConfirmedIsMailed`)
  and the queue's promises hold for every job.

## 6. Not modelled

- Statistics (`stats_repository.py`) and the queries of administration, evaluation
  averages and lists: they read committed rows and change nothing.
- The 422 that FastAPI answers to malformed JSON before it authenticates, so also to
  nobody and without an audit row: `Requests` validates bodies after admission only.
- Metrics, exporters and the shipping of log lines (`metrics.py`, `otel.py`,
  `logging_config.py`): nothing in the program depends on them.
- OAuth, e-mail, calendar and embedding adapters: I/O. Their failures are steps of
  the modules that call them (`EmbeddingFails`, `EmbedFails`, a handler that fails).
- Relevance of a vector search and the text of curated topics: any order and any
  match.
- What a PDF contains and the names in files already written, the front end, the deployment and the load tests. Sentences
  the front end shows are quoted where the back end does not keep them.
- More than one API process. The cache is per process; a second process has a cache
  of its own that nobody invalidates, which `RepliesAreRecent` (not
  `OnlyRacesAreStale`) also bounds, since it does not rest on invalidation.
