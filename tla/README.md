# Students API: a TLA+ model, its checks and its proofs

The repository is a REST API in Go (Echo, GORM, Redis): students with a unique CPF,
accounts with JWT access tokens and rotating refresh tokens, SQL migrations run at boot.
Each handler runs in its own goroutine, on any number of replicas, against one SQL
database and one Redis; no handler opens a transaction and none takes a lock. What can go
wrong lies between two calls of one handler, and that is what the modules here model: one
action per query or Redis command, with everything else free to run in between. What one request
decides by itself (parsing, validation, check digits, pages) is modelled too, in front of
an abstract registry, and the processes around the handlers as they boot, drain and die.

`PROJECT.json` maps every definition to the lines it stands for, and lists components,
runs, mutants, findings, hazards and theorems.

## 1. The system

| component (source) | state | operations | what makes it correct |
|---|---|---|---|
| students handlers (`internal/api/handlers.go`) | none of their own | list, get, create, update, delete | unique CPF, partial update, a deleted student stays deleted |
| cached repository (`internal/repository/cached_student.go`) | Redis: `student:<id>`, `students:list:gen`, `students:list:g<gen>:...` | read-through `FindByID` and `List`; invalidation after each write | a cached value that can be served is the database's, or becomes so |
| students table (`internal/repository/student.go`) | rows, `deleted_at` | Create, List (COUNT then SELECT), FindByID, ExistsWithCPF, Save, soft Delete | the queries agree with each other |
| Redis client (`internal/cache/redis.go`) | keys with one TTL | Get, Set, Delete | failures never fail a request |
| sessions (`internal/api/auth_handlers.go`, `internal/repository/user.go`) | `refresh_tokens`: expires_at, revoked | login, refresh, logout | rotation, revocation |
| cleanup worker (`cmd/api/main.go`) | a ticker | hard delete of dead tokens | deletes nothing usable, leaves nothing dead |
| migrations (`migrations/migrations.go`, `internal/db/db.go`) | `schema_migrations`, the schema | Run at boot | each once, in order, all or nothing, before serving |
| accounts (register, login, `seedAdmin`) | `users`, UNIQUE username | look up, insert; find, compare | one account per name; the admin is there before anybody can take the name |
| middleware, JWT, bcrypt (`middleware.go`, `internal/auth`, `internal/crypto`) | the secret of each process | sign, parse, `requireAuth`, `requireAdmin` | only the admin writes; a token is good on every replica |
| lifecycle (`main`) | process, workers | boot, listen, signal, bounded drain, exit | a drain ends; what a request that is cut off leaves behind is bounded |
| validation, CPF digits, pagination (`request.go`, `cpf.go`) | none | pure functions | refuse exactly what is unfit; pages add up to the listing |
| configuration (`internal/config`) | read once | defaults | no production without a secret |
| audit, metrics, request log, docs, deploy | none that changes | | output only |

Handlers call the repository through an interface; `buildRepository` decides at boot
whether it is the cached one (a replica that finds Redis down stays uncached). All share
one SQL database. The context of the HTTP request is the context of every query and Redis
command, so a client that disconnects stops the handler where it is.

Hard behaviours: check-then-act without a transaction (CPF, refresh tokens); a row read
before and written after somebody else's write; cache fills that arrive late; the
invalidation cut off, failed, reordered or sent twice; expiry of the generation key;
boots that collide; a purge that runs on an old reading of the clock; names looked up in one
query and taken in another; SIGTERM before, during and after requests; a Redis that comes
back with yesterday's keys; pages cut by offset from a table that changes.

## 2. Modules

| module | models | corresponds to |
|---|---|---|
| `StudentData` | rows, bodies, queries, pages as pure operators | `apply`, `List`'s two queries, `ExistsWithCPF` |
| `StudentRegistry` | **abstract**: what a client that sends one request at a time is promised | the handlers, each as one atomic step |
| `CPF` | check digits as the code computes them, and as the register states them | `cpf.go` |
| `StudentApi` | parsing and validation in front of the registry, and a client that turns pages; implements `StudentRegistry` | `handlers.go`, `request.go` |
| `StudentRequests` | **detailed**: handlers + cache + both stores, one action per outgoing call; implements `StudentRegistry` when requests do not overlap | `handlers.go`, `cached_student.go`, `student.go`, `redis.go` |
| `StudentProperties` | invariants, action properties, refinement mapping | |
| `StudentSnapshots` | `StudentRequests` composed with a Redis that restarts from its snapshot; fairness | `docker-compose.yml:52-54` |
| `RefreshTokens` | login, refresh, logout, the purge, clock, crash, lost requests | `auth_handlers.go`, `user.go`, `main.go:79-108` |
| `Processes` | the life of a process, and the requests it has in flight | `main.go:30-77`, `server.go` |
| `Accounts` | `Processes` with what boot and requests do: secret, seed, register, login, the middleware; implements `AccountBook` | `main.go`, `auth_handlers.go`, `middleware.go`, `token.go`, `config.go`, `password.go` |
| `AccountBook` | **abstract**: each request takes effect at one moment or is given up; names are taken once, a session is worth what its account is | what `register`, `login`, `requireAuth` and `requireAdmin` promise their clients |
| `Migrations` | concurrent boots on PostgreSQL; implements `SchemaUpgrades` | `migrations.go`, `db.go`, restart policy |
| `SchemaUpgrades` | **abstract**: migrations are added whole, each on top of the lower ones, and a process serves on top of all of its own | what `Run` (`migrations.go:22-24`) promises its callers |
| `MCStudents`, `MCSnapshots`, `MCRegistry`, `MCRefreshTokens`, `MCMigrations`, `MCAccounts` | constants for TLC | |
| `StudentDataLemmas`, `StudentApiProofs` (with the registry's), `StudentRequestsProofs`, `SequentialProofs`, `SnapshotProofs`, `RefreshTokensProofs`, `AccountsProofs`, `MigrationsProofs` | theorems | |

**StudentApi.** A request is what arrives: a path with any id, a body that may lack fields
or not parse, a query string with junk. `Blank` and `Addresses` say which names
`strings.TrimSpace` empties and which e-mails `net/mail` takes; everything else is computed
as the code does. `walk` is a client that turns the pages of one listing while the table
changes under it; it is history for two properties and acts only through `listStudents`.

**Accounts.** A row of `users` never changes, so it stands for its id, and a password for
its hash. A token carries the row, the role and the key it was signed with; a process
without `JWT_SECRET` signs with the number of its boot, which no other process has. The
environment is chosen once and shared by all replicas, as by the services of one compose
file. `Ends` is every way a process stops; the requests it had in flight get no answer. The
mapping to `AccountBook` keeps what a request asks for until it is answered, and of a token
the account it stands for: queries, keys and processes are invisible to it.

**StudentRequests.** `students` and `deleted` are the table: a row is never removed, only
marked. `byId`, `gen`, `lists` are the three families of Redis keys. `req[r]` is what the
goroutine of request `r` holds in its local variables, with a program counter. `issued`
and `younger` record which generations exist and which page keys were set after the
generation key; every SET uses the same TTL, so keys expire in the order of their SETs,
and `younger` is all that is needed to say so. `missed` is history: a write has ended
without the bump it owed (the bump failed, the request was cut off, or its replica has no
Redis), or Redis lost bumps when it restarted, and nobody has bumped since.
`Save` is gorm's `Save`: an UPDATE that skips soft-deleted rows and, when it changes no row, an INSERT ... ON CONFLICT DO UPDATE of
all columns. An UPDATE and an INSERT are one step: what could run between them changes
nothing here, since ids never come back and the outcome of both is the row as it was held.
`Infos` stands for name, e-mail and age together, as no code path separates them.

**RefreshTokens.** A token and its SHA-256 are one value. `cutoff` is the `time.Now()` the
worker passed to its query. `born`, `parent`, `loggedOut` are history, read by properties
only. A new token is always a fresh one: 32 bytes of `crypto/rand`.

**Migrations.** A script is `Size` statements plus the INSERT of the version. PostgreSQL
is external: objects of an open transaction make others wait, then fail or go on. `Known`
gives each replica's build its number of scripts, so old and new builds boot together. The
mapping to `SchemaUpgrades` keeps what is committed and who serves: an open transaction
and its failures are invisible to it.

## 3. Runs

Passing runs:

| run | module | bounds | shows |
|---|---|---|---|
| `list_cache` | `MCStudents` | 3 requests (a reader of pages, a creator, an updater/deleter), 2 ids, 2 writes, 3 generations; faults of reads, fills, DEL, queries, generation reads, bumps; clients that go away | `TypeOK`, `ListCoherent`, and `ListInv`, the invariant its proof uses |
| `sequential` | `MCStudents` | 1 request at a time, any handler, 2 ids, 2 CPFs, 2 writes; failing reads, fills, queries; a bump sent twice | `ImplementsRegistry` (refinement), `ByIdCoherent`, `DeletedStaysDeleted`, `OnlySentFieldsChange`, and `SequentialInv`, the invariant their proofs use |
| `eventually_fresh` | `MCSnapshots` | 3 requests (a reader, a writer, a writer without Redis), 2 ids, 1 write, 2 generations, 1 restart of Redis; failing reads, generation reads, DELs and bumps, clients that go away | `ListCoherent` (over restarts of Redis), `EventuallyFresh` |
| `registry` | `MCRegistry` | 3 ids, bodies with each single flaw, 7 CPF numbers of which 2 are valid, 8 query strings, a page turner | `TypeOK`, `RowsShareNoCPF`, `OnlyFitRows`, `RefusedOnlyIfUnfit`, `WalkMissesNobody`, `WalkRepeatsNobody`, `ServesTheRegistry` (refinement) |
| `tokens` | `MCRefreshTokens` | 2 requests, 2 tokens, clock 0..2, validity 1, all faults | `TypeOK`, `ReplacedTokensAreDead`, `PurgeSparesUsable`, `OverForGood`, `DeadTokensPurged` |
| `migrations` | `MCMigrations` | 3 replicas, one of an older build, 2 migrations of 2 statements, 2 faults | `TypeOK`, `AllOrNothing`, `InOrder`, `OnceEach`, `ServesOnItsSchema`, `NobodyWaitsForAWaiter`, `ImplementsUpgrades` (refinement), `EventuallyServes` |
| `accounts` | `MCAccounts` | 2 replicas, 2 boots, 2 clients, one name (the admin's), 3 passwords, 3 environments, 1 failed query | `TypeOK`, `OneAccountPerName`, `CreatedMeansYours`, `OnlyAdminWrites`, `AdminBeforeService`, `GoodEverywhere`, `ImplementsBook` (refinement), `ShutdownEnds` |

Why these bounds are enough to be interesting. A stale page needs a reader that overlaps a
writer, and two writers when a bump is to overtake another: three requests, two writes,
three generations. A wrong total needs a write between COUNT and SELECT, and a second row
to create: two ids. A lost rotation needs one token and its successor. A collision of
boots needs two replicas, a third keeps waiting while the first two settle. The name of the
admin is the one name worth racing for: a client that knows the admin's password and one
that does not both try to register it while the replicas seed it. Two boots are a second
replica or a restart of the first. One body per flaw shows that each check refuses by
itself; three ids make a walk of three pages. The theorems lift the bounds for what they
state.

Runs that end in a violation; each is a disagreement between the code and a line of the
repository, quoted in `findings`:

| run | property | what happens |
|---|---|---|
| `overlapping_creates` | `UniqueCPF` | two POSTs pass the lookup, both insert; the index is not unique |
| `update_during_delete` | `DeletedStaysDeleted` | PUT reads, DELETE commits, PUT saves: the row is back |
| `stale_update` | `OnlySentFieldsChange` | a late fill leaves an old student in the cache, the next PUT writes it back |
| `generation_absent` | `ListCoherentWithoutGen` | a page of generation 0 stored late outlives the generation key |
| `refresh_during_logout` | `LogoutEndsSession` | refresh has passed its lookup, logout revokes, refresh issues |

The same properties tell more when a fault is added to a run's cfg. With a reader and a
writer of one id in `list_cache`, TLC violates `ByIdCoherent`; with two PUTs and no cache at
all, `OnlySentFieldsChange`. With `resend` in the `Faults` of `list_cache` it violates
`ListCoherent`: a generation sent again after a younger one brings the older pages back.
The run is without that fault and with all the others: a client that leaves between commit
and invalidation, a bump that fails or a replica without Redis leaves the old pages cached,
though README.md:60 says that every write invalidates, but not past the next bump of any
writer. That much is what `missed` says, and `EventuallyFresh` says the rest, a bump sent
twice excepted: its run would be too large. The theorems of section 5 say exactly which
bumps sent twice do harm.

`CHECK_DEADLOCK FALSE` appears where the system may stop: in `migrations` (all replicas
serve), in `accounts` (no boot is left) and in the runs of
writers only, when `MaxWrites` is used up. Every other run is checked for deadlock.

Definitions commented "slip (mutant)" are the code with a plausible mistake in it. Each
property of a passing run is violated when the slip `PROJECT.json` names for it takes the
place of the definition it imitates; no specification uses them otherwise.

## 4. Fairness

- `StudentSnapshots`: a request in flight proceeds (weak fairness: its goroutine is
  scheduled and its calls return or fail; go-redis stops sending again after three
  attempts), and Redis drops expired keys. Nothing makes a request arrive, or Redis restart.
- `RefreshTokens`: the clock runs, the worker gets its ticks (weak), and its query is not
  cut off or refused every single time (strong, as each attempt can fail). The ticker starts
  anew with each boot, so ticks arrive only where processes live longer than the interval:
  for one that is restarted more often, `DeadTokensPurged` promises nothing.
- `Migrations`: a process that runs takes its next step and one that ended is started again
  (`docker-compose.yml:6`, `restart: unless-stopped`). Faults are finitely many.
- `Accounts`: `server.Shutdown` returns when nothing is in flight or its context is done.
  Nothing else: a request may hang for ever, and `ShutdownEnds` holds all the same.

## 5. Proofs

All by TLAPS, with no bound on requests, replicas, ids, tokens, writes or generations.
Assumptions are the named `ASSUME`s of the modules; TLC evaluates them in each run.

- `TypeCorrectness` (`StudentRequestsProofs`): `TypeOK` is inductive. It says more than
  ranges: what a handler holds at each step, such as the student it is about to save. One
  lemma per action, over lemmas that type the records the actions build.
- `ListCoherenceUnraced`, `ListCoherence`, `FillsAreFresh` (`StudentRequestsProofs`), for any
  overlap and any faults, on replicas with and without Redis. `ListCoherent` is not
  inductive: a fill in flight may spoil it. `ListInv` adds that (1) every generation that is
  read, stored under, or current was issued, so a bump leaves all pages and all fills
  behind; (2) a fill under the current generation that has counted, or has its rows, holds
  what the table still has, unless a bump is owed. A database write makes its request owe
  one; a bump makes (2) vacuous for every fill in flight, those spoiled by a bump that
  somebody else owed and missed included; a write that ends without its bump sets `missed`.
  A bump whose reply was lost is no longer owed, and may be sent again: that is harmless
  as long as it finds its own generation current and none missed (`ResendsOnTime`, a
  hypothesis about the steps of the behaviour), which is all there is to the finding above.
  Where nothing is sent again (`NoResend`) no hypothesis is left: that is `ListCoherence`.
- `SnapshotTypes`, `ListCoherenceOverRestarts` (`SnapshotProofs`): the same when Redis comes
  back with what it last saved, any number of times. The invariant adds what a snapshot may
  hold: generations that were issued, and, while its generation is still the current one
  and no bump is owed, pages that are the database's. A step either makes a generation that
  is in no snapshot, or cannot end the time in which a bump is owed (`SettlesNothing`).
- `CacheIsInvisible`, `EntriesAreRows`, `NothingIsStale`, `CPFsStayUnique`,
  `RemovedStayRemoved`, `PutsKeepTheRest` (`SequentialProofs`), under `OneAtATime`: one
  request in flight, with failing reads, fills and queries and bumps sent twice, on any data
  and through any number of requests. `SequentialInv` has three parts: what Redis holds is
  the table but for what the one writer is about to drop (`CacheInv`); what a handler has
  learnt of rows and CPFs is still so (`Knows`); the pages and the generation it goes by
  are still good (`Holds`). From it each step is a step of `StudentRegistry` or none. So the
  three findings about `UniqueCPF`, `DeletedStaysDeleted` and `OnlySentFieldsChange` need
  overlap: the same properties are theorems without it.
- The causes of the findings. Each property that a run violates is a theorem of the same
  specification, with overlap and every fault, once the race the run shows is ruled out by
  a hypothesis about the steps, `[][...]_vars`; so the race is the whole cause.
  `RemovedStayRemovedUnraced`, `PutsKeepTheRestUnraced` and `CPFsStayUniqueUnraced`
  (`StudentRequestsProofs`): no PUT takes over a stale cache entry (`FreshHits`), and no
  DELETE comes between a PUT's lookup and its save (`DeleteSpares`), no other
  save of the student does (`SaveSpares`), or no write stores a CPF that another request is
  about to write for another student (`CPFSpares`). `FreshHits` holds by itself on replicas
  without Redis (`NoStaleHitsWithoutRedis`), and with it when no write overtakes a fill of the
  student (`FillsSpared`), every writer's DEL takes effect (`DelsArrive`) and no PUT reads an
  entry whose DEL is under way (`HitsWait`): `StaleHitsHaveThreeCauses`. The first two of the
  three give `ByIdCoherent` (`EntriesAreRowsUnraced`). `AbsentKeyIsCorrectOnTime`: with every
  bump sent, reading an absent generation as 0 is correct, as the comment says, unless a page of generation 0 is
  stored after a bump or being filled when the key lapses (`Gen0FillsOnTime`); it is the
  strict form of `ListInv`, and that a page stored before the bump is gone when the key
  lapses (`Gen0LapsesFirst`). `LogoutEndsUnraced` (`RefreshTokensProofs`): a logout ends its
  session unless a refresh holds the token, or is issuing a descendant of it, when the token is
  revoked (`LogoutsApart`); so it does when requests do not overlap (`LogoutEndsAlone`).
- `RegistryTypes`, `RegistryUniqueCPF` (`StudentApiProofs`): the abstract registry, for any
  data.
- `TokensTypeCorrectness`, `Rotation`, `PurgeIsSafe`, `OverIsForGood`
  (`RefreshTokensProofs`), from one inductive invariant: `TypeOK`; two requests never hold the
  same new token (`Distinct`); a refresh about to issue has seen its own token die
  (`Spent`), which a step of another request cannot undo because rows only ever get revoked
  or deleted and stored tokens are new; the worker's reading is never ahead of the clock
  (`CutoffPast`). `RotationUnraced`: a token gets one successor at most as long as no two
  refreshes hold it at once (`RefreshesApart`), so rotation is then a chain.
- `ApiImplementsRegistry`, `ApiOnlyFitRows`, `ApiRefusedOnlyIfUnfit` (`StudentApiProofs`):
  `ValidIsFit` shows that a valid body makes a fit row, `ValidIsCPF` that the digits of the
  code are those of the register for every number (the two remainders agree modulo 11), and
  one lemma per handler that it is a step of the registry. The first two take the listings
  of the registry to be at least those a query string can ask for (`AnyPage \subseteq
  ListParams`), which only says that the abstract module was given enough constants.
- `ApiMissesNobody`, `ApiRepeatsNobody` (`StudentApiProofs`), under the same assumption, for any
  page size and any number of students, however many rows are created and updated during the
  walk. A new row comes after all others, so a row stays ahead of the client until one
  leaves the listing from before the next page (which `left` records), and behind it until an
  older row comes back there, or one that was seen comes back at all (`returned`). `WalkInv`
  says so: of the rows due, those before the offset have been seen, and what has been seen is
  before the offset. Lemmas on `Position` in `StudentDataLemmas` say that a page holds exactly
  the rows of the next positions, and that a row stays beyond the offset where the rows
  before the offset stay (`RowStaysBeyond`, by counting: no position is empty).
- `AccountsTypes`, `OneAccount`, `Created`, `AdminWrites`, `SeedComesFirst`,
  `TokensGoodEverywhere` (`AccountsProofs`): `OnlyAdminWrites` needs that an
  honest client only ever names accounts whose password it knows (`HonestClients`) and that
  the only admin row is the seeded one (`OnlyOneAdmin`); `GoodEverywhere` that with a secret
  in the environment nobody signs with anything else (`SignedAlike`); `AdminBeforeService`
  that before the first listener nobody can have registered, so a lookup that finds the
  name has found the admin (`SeededFirst`).
- `BookImplemented` (`AccountsProofs`): `Accounts` implements `AccountBook`. Register takes
  effect at its insert (or at the lookup that finds the name), login at its last query (or at the one that finds no match), a
  call when it is authorised; an earlier query is a stutter, and a client or a process that
  goes away gives requests up. The same invariant carries it: what a request holds is what
  it asked for, a token stands for a row with that role, and keys are alike in production.
  A 500 promises nothing: the account may be there (`RegisterUnacknowledged`).
- `MigrationsTypes`, `Atomic`, `Ordered`, `AppliedOnce`, `Served` (`MigrationsProofs`): the
  invariant adds what a replica has passed (`Passed`: all it skipped or committed is
  recorded), that an object is in one open transaction at a time (`MadeOnce`), how commits
  and rows count each other (`Counted`), and that what a replica read is behind the table
  (`Behind`).
- `NoCircleOfBoots` (`MigrationsProofs`): a boot that waits for another's transaction waits
  for one that does not wait, however many boot at once; PostgreSQL has no deadlock to
  break. Boots that meet are at one migration and run its statements in one order, so one that
  waits for another is at a statement the other has passed. Three in a row would give the
  first's statement to the third as well, and no object is made in two transactions
  (`MadeOnce`, `Passed`).
- `BootsImplementUpgrades` (`MigrationsProofs`): the boots, with their transactions,
  collisions, failures and lost answers, implement `SchemaUpgrades`: a commit,
  answered or not, adds one whole migration after all lower ones, `Serve` serves, the end of
  a process that serves ends its service, and every other step is a stutter.

Model-checked only: the liveness properties (`EventuallyFresh`, `DeadTokensPurged`,
`EventuallyServes`, `ShutdownEnds`), which are out of the prover's reach with fairness and
ENABLED. Every other property of a passing run is a theorem.

## 6. Not modelled, and why

- In `StudentRequests`, requests refused before any store call (400, 401, 403) and encoding
  errors: no effect there. `StudentApi` has the 400s, `Accounts` the 401s and 403s.
- A query that takes effect while its answer is lost is modelled for Redis generations, for
  COMMIT of a migration and for the insert of an account, not for the students' and tokens'
  queries. Such a write behaves, for the cache, as one whose client went away.
- `REDIS_TTL=0`, with which keys never expire and nothing about freshness is promised;
  SQLite's file lock; two databases; replicas with different environments.
- The splitting of a migration script into statements: a function of text that a model would
  spell out, and no script of the repository comes near its odd cases.
- Whether a name is blank or an e-mail parses (library functions, given by CONSTANTS), and
  the length of usernames and passwords (`registerRequest.validate` refuses with 400 and
  changes nothing).
- Audit log, metrics, request log, health check, API docs: output only; `docs/` is generated.

## 7. Plan

Done: everything in sections 2 to 5. What is left, in the order of its worth:

1. `Accounts` composed with `RefreshTokens`, so that a session ends with its process.
2. For each finding, the smallest change to the model that restores the property (a unique
   index, a conditional UPDATE, a detached context), as variants checked with the same runs.
