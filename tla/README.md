# RustyPotato in TLA+

A verification project for RustyPotato, a Redis-compatible key-value server in
Rust on tokio. It models the in-memory store and its commands, the append-only
file (AOF), the life of connections and of the process, the RESP codec with the
command-line client at its other end, the metrics, and the monitoring server with
its health checks and log rotation.
Paths below are relative to the crate (`src/src/`) unless they start with `docs/`.

## 1. Inventory

| Part | State | Operations | Talks to |
|---|---|---|---|
| Memory store (`storage/memory.rs`) | two DashMaps, `data` and `expiration_index` | `set`, `set_with_options`, `delete`, `expire_*`, `persist`, `incr_by`, `hset`, `hdel`, `clear`, `cleanup_expired`, lazy expiry in every access | commands, rewrite snapshot, health check |
| Data commands (`commands/{string,hash,ttl,atomic}.rs`) | none | each command is one or several store calls | store |
| Server commands (`commands/server.rs`) | the rewrite barrier | TYPE, FLUSHDB, KEYS, INFO, BGREWRITEAOF | store, persistence |
| Registry (`commands/registry.rs`) | command table, fixed | dispatch, arity, `is_mutation` | server, replay |
| AOF (`storage/persistence.rs`) | channel, writer's buffer, file, fsync clock | log, flush, rewrite and swap, shutdown, replay | server, facade |
| Connection pool (`network/connection.rs`) | semaphore, `connections`, `permits` | reserve, add, remove, find and evict idle | server |
| TCP server (`network/server.rs`) | accept loop, one handler per connection, evictor | accept, read, execute, log, reply, close | everything |
| Facade and binary (`lib.rs`, `bin/server.rs`) | shutdown broadcast | open and replay, start, shutdown, forced exit | server, AOF |
| RESP codec (`network/protocol.rs`) | a buffer per connection | encode, decode in chunks | server, replay |
| Metrics (`metrics/`) | four groups of counters, each behind a lock | record, summarise, reset | server, monitoring |
| Monitoring server (`monitoring.rs`) | a task per HTTP request | health, metrics, rotate, status | metrics, health, rotation |
| Health checker (`monitoring/health.rs`) | a test key in the store | five component checks | store, metrics |
| Log rotation (`monitoring/log_rotation.rs`) | the log directory, `last_rotation` | check every minute, rotate, compress, clean up | logger |
| Configuration (`config.rs`) | the loaded record | defaults, file, environment, validation | binary |
| Command-line client (`cli/`, `bin/cli.rs`) | one codec buffer | encode, send, read, show | server |
| Errors (`error.rs`) | none | classification, wording | |

What makes it hard:

- A DashMap operation is atomic and a method that makes two of them is not, so
  commands interleave inside the store, and the clock moves between two steps.
- A command executes, then is queued for the file, then is acknowledged, then is
  written, then is synced. Rewrites, I/O errors, crashes and shutdown fall
  between any two of those.
- Handlers, the evictor and the shutdown remove connections concurrently.
- The metrics calls take several locks, not all in one order; rotations share a
  directory, and health checks a key, without any lock.

What should hold: an expired value stays expired and its expiry harms no other
value; no executed mutation drops out of the log; a crash leaves a prefix; a
clean shutdown leaves a file that replays to the store; nobody waits for ever;
slots are conserved; a shutdown ends and flushes; what a command changed is
logged; a client is shown the reply to its own command; counters are not torn; log
lines are kept; the server runs what it was configured to. The hazards, each at its line,
are in `PROJECT.json`.

## 2. Modules

| Module | Models | Granularity |
|---|---|---|
| `MemoryStore` | the store | one action per DashMap operation |
| `StoreCommands` | commands as sequences of store calls | - |
| `MemoryStoreProofs` | the proofs about `MemoryStore` | |
| `AofPersistence` | execute/log/reply, BGREWRITEAOF, writer task, file, shutdown, crash, replay | one action per channel, lock or file operation |
| `AofControlProofs`, `AofWriterProofs`, `AofOrderProofs`, `AofProofs` | the proofs about `AofPersistence`, in that order | |
| `ConnectionLifecycle` | accept loop, pool, handlers, evictor, shutdown | one action per map or semaphore operation or await |
| `LifecycleProofs` | the proofs about `ConnectionLifecycle` | |
| `RespCodec` | decoding a connection's bytes in chunks, the frames for the AOF, replay | one action per read and per command |
| `CliClient` | the client's encode, read and decode, against a server that may close | one action per read or write |
| `CommandSyntax` | registry, arity, each command's argument checks and store writes, what is logged, SET's options, the glob of KEYS | one command, sequential |
| `Metrics` | the collector's calls | one action per critical section, or half of one where a second lock is awaited |
| `AtomicMetrics` | what the collector promises: each call is one step | |
| `MetricsProofs` | the proofs about `Metrics` | |
| `Histogram` | record, clear, percentile, average | one action per call |
| `LogRotation` | the logger, the timer and manual rotations | one action per file operation |
| `Monitoring` | HTTP requests and health checks, over `LogRotation` | one action per store call or handler step |
| `Startup` | configuration sources, validation, boot of several processes | one action per boot stage |
| `MonitoringProofs` | the proofs about `Monitoring`, `LogRotation` and `Startup` | |
| `MC*` | instances for TLC | |

### MemoryStore

`data` and `index` are the two maps, `now` the clock. A thread is a connection
task; `pc`, `todo` and `loc` are where it is, the store calls its command has
left, and the locals of the method it is in. Where the code updates the index
while it holds the data entry's shard lock, the two updates are one action.
A string is the integer it parses to or `None`, a hash the set of its fields.
`id` names the `StoredValue` and is read by the properties only. i64 is
`-MaxInt-1 .. MaxInt`. Statistics and size metadata are left out.

### AofPersistence

The store is the `history` of its mutations. A frame names a mutation by its
position, or stands for the snapshot of the first n, or is torn. `synced` is how
much of the file survives a power failure. A crash keeps any prefix between
`synced` and the end and may tear the next frame; a kill loses the process and
not the page cache. A command is one atomic mutation here. Deadlines and the
encoding of entries are left out; commands that fail are not logged by the code
and are not modelled. The rename of a rewrite is taken to be durable, although
the code does not sync the directory.

tokio's `File` writes in the background and reports an error to the next call, so
a write that fails is heard of in `write_all` (`WriteAllFails`: the buffer is kept
and written again) or in the `flush` behind `buffer.clear()` (`FlushFails`: the
frames not written are gone). Which one depends on sizes the model leaves out, and
either may happen. `lost` (auxiliary) is the set of mutations that a failed flush
or swap threw away and no rewrite has saved since.

### ConnectionLifecycle

`st[c]` is where the handler of connection c stands; `connections`, `permits` and
`available` are the pool. `embedded` chooses between a program that calls
`shutdown` itself and the binary, whose `select!` drops the accept loop. `evicted`
is a history variable. What a command does is left out. Any connection whose
mutex is free may count as idle. The evictor's `stream.shutdown` stops writes and
not reads.

### RespCodec

The parsers are operators on a buffer and a position that return a value, an
error or the need for more; `decode_with_frame`, `process_buffer`'s loop and
`replay_aof_file` are built on them. A byte is a string and a decimal number is
one byte, because a line is looked at only once it is complete. `script` is what
the client sends. Every codec has limits: those of a connection are configured
(`ConfiguredLimits`, `network/server.rs:504`), replay and the client take the
defaults (`DefaultLimits`, `persistence.rs:646`).

### CliClient and CommandSyntax

`CliClient` extends the codec: the client encodes into and decodes from one
buffer, replies arrive cut anywhere, and after a reply it cannot decode it keeps
what is left. `shown` is what the user saw for each command.

`CommandSyntax` has no concurrency: its state is one call, and `execute` gives the
error or success, the number of store writes, and whether a step panics. An
argument is a token, of the store only the type of the value at the key is kept.
`parse_set_options` is compared with the grammar written out as a set, and
`glob_match_bytes`, which backtracks to one star only, with a recursive definition.

### Metrics, AtomicMetrics, Histogram

`lock` says who holds a lock while it awaits another; critical sections without
such an await are one step. `before` (auxiliary) is what a locked group held when
the lock was taken, and is the refinement mapping: whoever reads under the locks
sees `Seen`, and what they see follows `AtomicMetrics`. `record_storage_operation`,
`record_memory_usage` and `reset` are public but only called by tests.

`Histogram` keeps the buckets and, as auxiliary state, the sorted samples they
stand for. `CountBits` is the width of the u32 that `average` casts to.

### LogRotation and Monitoring

Names lead to inodes, and the logger keeps the inode it opened at start. Rotators
(the timer and each `POST /logs/rotate`) go through rename, read, write archive,
remove, list, remove victims and record, any of which may fail. `damage`
(auxiliary) remembers the ways to lose lines that the code has: a rename onto a
name of the same second, the cleanup, the one archive name, and lines logged to a
file that had been read. `Monitoring` adds the requests. Routes are tried in order
by prefix, so `/health/ready`, `/health/live` and `/metrics/summary` reach the
handlers of `/health` and `/metrics`.

### Startup

A configuration is a record of the fields that are checked or that two sources can
set. Processes compete for `ports`: `validate_environment` binds and releases, and
the two servers bind later. `PortBits` is the width of a port; the monitoring port
wraps, as in a release build, or the process ends, as a debug build does. The
variables of the environment come with the separator their names are written with.

## 3. Runs

Passing:

| Run | Bounds | Checks |
|---|---|---|
| `store` | strings: 3 threads, 1 key, 4 commands, clock 0..2; hashes, in a second instance of the store: 2 threads, 2 keys, 2 fields | `LazyDeleteSparesOlderValues`, `IndexCovers`, `NoResurrection`, `HashesLazyDelete`, `HashesStayExpired` |
| `aof_liveness` | 2 clients, 1 mutation, 2 rewrites or flushes, 1 I/O error | `EventuallyDurable`, `CallsReturn` |
| `wire_and_log` | the wire: up to 2 commands and a tail, reads of 1..5 bytes, file chunks of 6, buffer limit 34 for connections and 32 for replay, bulk limits 4 and 3; client sessions of up to 3 commands; every command on up to 4 arguments; SET with up to 4 option words; patterns of up to 3 pieces on texts of up to 3 bytes. The log: 2 clients, channel 1, 2 mutations, 1 rewrite or flush, 1 restart, 1 I/O error, 3 policies | `ChunksDoNotMatter`, `BytesConserved`, `FramesReplay`, `RepliesPaired`, `ChangesAreLogged`, `PanicsOnlyPastTheClock`, `SetOptionsMatchGrammar`, `GlobMatchesReference`, `NothingLost`, `CrashKeepsPrefix`, `CleanShutdownSaves`, `ReplayMatches` |
| `lifecycle` | 2 connections, 1 slot | `PermitAccounting`, `PoolBounded`, `ServedAreInPool`, `DrainedMeansQuiet`, `SlotReturned`, `ShutdownEnds` |
| `monitoring` | see below | `CountersAgree`, `ReadsAreOrdered`, `CallsReturn`, `CallsAreAtomic`, `StatisticsFaithful`, `LinesKept`, `OversizedIsRotated`, `HealthChecksIsolated`, `RequestsAnswered`, `ServesWhatWasConfigured` |

`ConnectionTypeOK` is an invariant of `wire_and_log`, `TypeOK` of `store`, `aof_liveness`
and `lifecycle`, `AllTypesOK` of `monitoring`. `ReplayMatches` passes in
`wire_and_log` because there each client SETs a key of its own; the two runs below
show that it fails when clients share a key.

A behaviour of `store`, `wire_and_log` or `monitoring` runs one of several independent
parts, chosen in its initial state, and leaves the variables of the others alone.

Bounds. Four commands let a value be written, expire, be found expired and be
replaced while a third task is in between. One key is enough for the strings, as
their commands touch one key at a time. A channel of one message makes senders
wait, and one I/O error may hit any write, sync or swap. One slot for two
connections makes a slot returned too early, twice or never visible. On the wire
reads end at every position of every frame, two commands can share a read, one
command is longer than the buffer limit, and one has an argument that only the
configured limits let through. `FramesReplay` says what replay makes of that: a
prefix of the commands, none from the first frame beyond the default limits on, and
all of those before it that leave room for a chunk in the buffer, as the limit
counts the whole chunk. Arguments are missing, surplus, not UTF-8, or the largest
u64.

The parts of `monitoring`: `metrics`, 2 tasks, 2 command names over a cap of 1, 3
writing calls; `histogram`, 5 samples with a count of 2 bits, so that the count
overflows; `rotation`, one request beside the timer, 1 line, clock 0..1 (so that
rotations fall in the same second and in two), 2 lives, 1 failing file operation,
policy SizeOrDaily, the one the binary sets; `health`, 2 requests, one client command,
a rewrite and a restart; `boot`, 2 processes with any two of 17 set-ups on ports of
3 bits. The other rotation policies are in the model and not in this run.

Deadlock checking is off because clients may stop sending and a server that is
down does nothing.

Violations: what a comment or document says and the code does not do.

| Run | Property | What happens |
|---|---|---|
| `store_lazy_delete` | `LazyDeleteRemovesOnlyExpired` | GET finds an expired value, another client SETs the key, GET deletes the new value (`memory.rs:622`) |
| `aof_order` | `ReplayMatches` | commands are logged in another order than they executed (`persistence.rs:6`) |
| `aof_rewrite` | `ReplayMatches` | an INCR is in the snapshot and logged behind it (`docs/COMMANDS.md:32`) |
| `aof_always` | `AlwaysDurable` | the reply does not wait for the fsync (`network/server.rs:744`) |
| `aof_torn` | `SyncedReadable` | frames appended behind a torn one cannot be replayed (`docs/DEPLOYMENT.md:440`) |
| `boot_env` | `EnvironmentOverrides` | a variable named as documented, `RUSTYPOTATO_SERVER_PORT`, sets nothing: the code separates by `.` (`docs/CONFIGURATION.md:93`, `config.rs:204`) |
| `lifecycle_exit` | `FlushBeforeExit` | the binary's 30 s for the shutdown are the drain's 30 s; it exits without the flush (`lib.rs:302`) |

Fairness. In `AofPersistence` the writer and the clock are weakly fair; clients are
strongly fair because tokio's channel and RwLock queues are first come, first
served; receiving is strongly fair because `select!` picks at random among ready
branches. In `ConnectionLifecycle` tasks that can go on do, and the clock runs;
nothing is assumed of clients. In `Metrics` a call under way is strongly fair, as
tokio's RwLock is first come, first served. In `Monitoring` the timer and the
request tasks are weakly fair; nothing is assumed of clients, the clock, failures
or restarts.

`NothingLost`, `CrashKeepsPrefix` and `EventuallyDurable` except the mutations in
`lost`, which the code does lose, and those only: a failed flush or swap must not take
another mutation with it, and without an I/O error `lost` is empty. `EventuallyDurable`
also excepts a read-only handle left by a failed swap, an error under `always`
(retried only by the next command), and a writer that has stopped.

The other properties with exceptions name them: `ServesWhatWasConfigured` fields set
by variables whose names are not read (the run `boot_env`), and a monitoring port that
port + 1000 overflows; `CallsReturn` of `Metrics` a reset
that meets a record half-way (they take two locks in opposite order, and both
stop); `LinesKept` the kinds of `damage` above; `ChangesAreLogged` the commands
that change something and then fail (MSET, DEL, HSET, HDEL with a bad later
argument, SET with GET over a hash), which are not logged; `RepliesPaired` what
follows a reply the client cannot decode; `PanicsOnlyPastTheClock` a time to live
beyond the range of Instant.

## 4. Proofs

TLC checks an instance; the theorems hold for every value of the constants that
satisfies the named assumption of the module. Each rests on an inductive invariant,
stated at the head of the proof module, with one lemma per action.

`MemoryStoreProofs` proves, for any number of threads, keys, fields and commands
and from `StoreAssumption` alone:

- `TypeCorrect`: `TypeOK` is an invariant. It is inductive; `ThreadsOK` ties each
  thread's `pc` to the call it is in.
- `LazyDeleteSafe`: `LazyDeleteSparesOlderValues`. The invariant alone is not
  inductive: `LazyInv` also says that while a lazy delete is on its way, the key
  holds nothing, an expired value, or one created since. The key fact, `DataStep`,
  is that a step keeps an entry, replaces it by one with a new id, removes it, or
  updates it in place without giving an expired one a new deadline.
- `ExpiredStaysExpired`: `NoResurrection`, from `DataStep`.
- `IndexComplete`: `IndexCovers`, with the commands restricted to indexed
  operations; `IndexInv` adds that the calls still to make are indexed too.

`MetricsProofs` proves, for any tasks, command names and limits and from
`MetricsAssumption` alone:

- `Invariance`: the inductive invariant `Inv`. `Owners` ties the locks to the tasks'
  places, `Phases` says what a call under way has done to the groups it has locked,
  `Agree` that the visible command and operation counts are equal, `Connections` that
  `active_connections` counts the connected handlers, `Bounds` that the command map
  is capped. `CountersAgree` alone is not inductive: it says nothing while a lock is
  held, so a step that releases one needs `Phases`.
- `TypesHold` and `CountersAlwaysAgree`, its consequences.
- `Refinement`: `Metrics` implements `AtomicMetrics` (`CallsAreAtomic`). The step that
  releases the last lock of a call is the abstract step; the others are invisible.
- `ReadsAlwaysOrdered`: `ReadsAreOrdered`, with the invariant that what a reader has
  read is not more than what is visible now, unless a reset was completed since.

`LifecycleProofs`, for any finite set of connections and any `max_connections`, from
`PoolAssumption`:

- `Invariance`: the inductive invariant `Inv`. `Owned` says where the permit of each
  connection of the pool is: in the map, with the handler that removes the connection,
  or with the evictor until it has. `Mapped` ties the maps to the place of the handler,
  `Drain` says that once the binary's drain has found the pool empty it stays empty,
  because the accept loop was dropped with the signal.
- `PermitsConserved` (`PermitAccounting`) and `TypeCorrect` (`TypeOK`).
- `PoolAlwaysBounded`: `PoolBounded`. It follows only with `Owned`: a connection without
  a permit would not be counted by `PermitAccounting`.
- `ServedStayInPool` (`ServedAreInPool`) and `DrainQuiet` (`DrainedMeansQuiet`).

The AOF modules, for any clients, mutations, channel capacity, policies and numbers of
rewrites, I/O errors and restarts, from `AofAssumption`:

- `ControlInvariance`: `Control`, inductive by itself. `Barred` says that a rewrite
  keeps the barrier from its snapshot to the swap, so that the snapshot in the channel
  is the whole history; `Waiting` that a task that waits has one message or job under
  way; `Stopping` that after a clean drain nothing follows the shutdown message; `Io`
  what the last flush leaves when no I/O failed.
- `AofInvariance`: `Inv`, which adds `Kept` (each mutation is in the file, the buffer,
  the channel or the hands of its task, or in `lost`) and `Ordered` (wherever a mutation
  is on that way, the earlier ones of its client that are not in `lost` are before it or
  further on). A failed flush keeps `Ordered` because what it drops is the rest of the
  buffer, and all of that enters `lost`. `Kept` needs
  `Barred` for the swap, which replaces the file and clears the buffer.
- `AofTypeCorrect` (`TypeOK`); `NothingLostAlways` (`NothingLost`) from `Kept` and `Io`;
  `CleanShutdownAlwaysSaves` (`CleanShutdownSaves`) from `Kept`, `Stopping` and `Io`;
  `CrashAlwaysKeepsPrefix` (`CrashKeepsPrefix`) from `Ordered`, as a crash leaves a
  prefix of the file and what is readable is a prefix of that.

`MonitoringProofs`, for any requests, log limits, lives and failures and from
`LogRotationAssumption`; for the boot, any processes, set-ups and port width, from
`StartupAssumption` and from `CommandLineAssumption`, which states what clap lets
through (a port is a u16, the level one of five, nothing else can be overridden):

- `BootInvariance`: what was loaded and validated, under the command line, is what
  runs; who has bound a port holds it.
- `ServesConfigured`: `ServesWhatWasConfigured`. The monitoring port is computed modulo
  the width and the property speaks of the sum. Validation comes before the command
  line is applied, so that the result is valid needs `CommandLineAssumption`, and that
  an empty bind address cannot be bound.
- `LinesAlwaysKept`: `LinesKept`. `RotationInv` adds that at most one rotation of a life
  is past its rename (`Once`: the log is not recreated, and a rotation that renames it
  finds none under way), and that what a compression holds in memory, then in the
  archive, covers the file it is about to remove, but for late lines (`Compression`).
- `HealthChecksAlwaysIsolated`: `HealthChecksIsolated`, with `Probing`: between its set
  and its get a check finds its key unless it was disturbed.
- `MonitoringTypeCorrect`: `MonitoringTypeOK`, with `Waits`: a rotation for a request is
  under way only while its handler waits. With `TypesHold` of `MetricsProofs` this
  covers both conjuncts of `AllTypesOK`.

The proofs about the AOF are split into four modules, and some ask for more than the
default time per obligation (`USE SMTT(30)`), because the translation to the solver
slows down as the obligations of a module add up.

Only model-checked:

- all liveness: fairness is outside the proof system's reach;
- `RespCodec`, `CliClient` and `CommandSyntax` (`ChunksDoNotMatter`, `BytesConserved`,
  `FramesReplay`, `RepliesPaired`, `ChangesAreLogged`, `PanicsOnlyPastTheClock`,
  `SetOptionsMatchGrammar`, `GlobMatchesReference`): parsers, option lists, argument
  loops and the glob are recursive operators, as the code's loops over bytes and
  arguments are, and what they compute for every input is an induction over data;
- `ReplayMatches`: the stores to compare are folds over the history, and that two
  folds agree is an induction over data;
- `StatisticsFaithful` of `Histogram`, for the same reason (percentiles and sums of
  sequences);
- `HashesLazyDelete` and `HashesStayExpired` as the run states them. They are
  `LazyDeleteSparesOlderValues` and `NoResurrection` of the second instance of the
  store, and the theorems about `MemoryStore` are about any instance.

## 5. Not modelled, and what remains

Not modelled: `error.rs` (error types, severities, texts: no state). Within modelled
parts: the text of replies, pages, logs, INFO and the banner; statistics and size
metadata of the store; the client's completion, history and help; what is only
reported (the size, file count and next time of the rotation's status; derived
rates; the cached health status); functions that only tests call
(`close_all_connections`, `create_sample_config`, `record_command_error`).
`cleanup_expired` is modelled although no task of the program calls it.

Seen while modelling, without a run:

- A `flush` that fails behind `buffer.clear()` loses acknowledged mutations that a
  `write_all` that fails would have kept (`persistence.rs:249-259`). The comments
  promise nothing about either; the properties name the loss.
- Replay ignores the configured limits (`persistence.rs:646`): with a larger
  `max_bulk_size` a command can be accepted, logged and synced, and stop the replay.
- `docs/CONFIGURATION.md:118` has the monitoring endpoint at port + 1000; from port
  64536 on that is no port, and a release build wraps.
- `docs/CONFIGURATION.md:128` and `docs/DEPLOYMENT.md:395` list `GET /info`; the
  monitoring server answers 404.

What remains, in order of worth:

1. An abstract store (one atomic map) and which operations of `MemoryStore`
   implement it. INCR on expired keys, KEEPTTL, HSET and HDEL do not: they act on
   what they read in an earlier step.
2. Deadlines in the persistence model: keys that expire between snapshot and
   encoding, and relative times to live that start again on replay.
3. Proofs: the options of SET and the argument loops of `CommandSyntax` written without
   recursion, so that what is logged can be proved for any number of arguments; and
   what `Histogram` counts.
