# A TLA+ model of RobinHood 4

RobinHood mirrors a file system into a database. `rbh-sync` scans it once,
`rbh-fsevents` then follows the changelog of a Lustre file system and applies
every change, `rbh-gc` drops what is gone; `rbh-find`, `rbh-policy` and the
others query the mirror and act on the file system. This project models the
mirroring, the commands that select and act, and the parts of `librobinhood`
they stand on.

Paths below are relative to the repository.

## 1. Inventory

### rbh-fsevents

| Part | State | Operations | What is hard |
|---|---|---|---|
| Lustre source (`rbh-fsevents/src/sources/lustre`) | position in the changelog, fsevents of the current record, list of batches not acknowledged, `last_read` in the sink | read a record, build its fsevents, save a batch, acknowledge a batch, restart | batches that finish out of order, crashes, the record that straddles two batches |
| Deduplicator and pool (`rbh-fsevents/src/deduplicator*`) | for each id, a list of fsevents; LRU list of ids; a fsevent set aside when the pool is full | push (insert, merge, cancel), flush into one sub-batch per worker | what may be merged, cancelled or reordered without losing information |
| Threads (`rbh-fsevents/rbh-fsevents.c`) | a list per worker, `working`, `done_producing`, `should_stop` | hand out sub-batches, take, process, acknowledge, stop, join | lost wake-ups, early exit, failures that go unnoticed |
| Enrichers (`rbh-fsevents/src/enrichers`) | the file descriptor of the current entry | read statx and xattrs of the entry | the file system has moved on since the event; entries that are gone |
| Sinks (`rbh-fsevents/src/sinks`) and info | - | update the backend, store `last_read` | partial failures |
| YAML source and sink | the static buffer of the parser | parse, emit | fields left over from an earlier document |

The producer thread owns the source and the deduplicator. It pulls a batch (a
set of sub-batches, one per worker concerned) and appends each sub-batch to its
worker's list. A worker pulls a sub-batch through the enricher into the sink,
then calls back the source (`ack_batch`), which is the only call from the
workers into the source's state, under `batch_lock`. Ids are spread over the
workers by a hash, so that one entry always has the same worker.

### librobinhood

| Part | State | Operations | What is hard |
|---|---|---|---|
| Hash map (`src/hashmap.c`) | array of items | set, get, pop | removal with linear probing |
| Rings, queues, stacks (`src/ring.c`, `ringr.c`, `queue.c`, `stack.c`, `sstack.c`) | memory areas | push, peek, pop | wrap-around, several readers, growth |
| Iterators (`src/itertools.c`) | buffered elements | tee, chunk, chain | elements read by one side only |
| Generic branch (`src/generic_branch.c`) | two rings of directories to visit | next entry of a subtree | full rings, retries after an error |
| Values and filters (`src/value.c`, `filter.c`, `filters/`) | - | build, clone, validate, evaluate | one filter evaluated by four engines |
| Serialization (`src/serialization.c`), fsevents, fsentries | - | emit, parse, clone | round trips, sizes of clones |
| Mongo (`src/plugins/mongo`) | the documents | update, filter, read back, delete | order of counts, missing fields, fixed buffers |
| POSIX (`src/plugins/posix`) | the state of a crawl | crawl by fts or mpifileutils, read an entry | the file system changes meanwhile |
| Its extensions (`src/plugins/posix/enrichers`: lustre, acl, selinux, retention, sparse) | - | store attributes, build filters over them | the two sides must fit together |
| SQLite, MPI-file (`src/plugins/{sqlite,mpi_file}`) | the stored entries | filter; MPI-file's update | precedence of SQL, entries in two records |
| Policy engine (`src/policyengine`) | entries collected, counts of actions, log stream | select, re-check, act | the mirror is older than the file system |

### Commands

`rbh-sync` (scan into a backend), `rbh-gc` (drop entries that are gone),
`rbh-find` (parse an expression, act on what it selects), `rbh-policy`
(triggers, rules, actions), `rbh-update-retention` (delete expired directories);
`rbh-update-path`, `rbh-undelete`, `rbh-report`, `rbh-info`, `rbh-log` and the
Hestia archive, which are not modelled.

### What makes the parts correct

* Source: a changelog record is cleared, or skipped by a restart, only when
  everything it says is in the sink; `last_read` never goes back.
* Pool: what a batch sends has the effect of what was pushed.
* Threads: success means that everything was processed; an entry's fsevents are
  processed in order; everybody ends.
* The mirror: once caught up, the database is the file system; after a calm
  scan it is too, and a collection only removes what is gone.
* Containers: the hash map is a map, iterators give every element once.
* Filters: whoever evaluates a filter, the same entries are selected.
* Fsevents and entries: what is written is what is read.
* Actions: what is deleted or executed is what was selected and is still so.

## 2. Plan

Done, in this order: `LustreAck` with its proofs; `FsEventsPipeline`; `Mirror`,
later with crashes and replayed records; `HashMap` with its proofs; filters and
their backends; the extensions of the POSIX plugin; `rbh-find`; the way of an
fsevent through YAML and Mongo; containers, iterators and the generic branch;
`rbh-sync` and `rbh-gc` on a live file system; `rbh-policy`.

Next:

1. `LustreRaw`: acknowledgment without deduplication (batch size 0), where one
   record spans several batches;
2. `Enricher`: one descriptor for several fsevents, partial failures, `--no-skip`;
3. `rbh-update-path` and `rbh-undelete` next to `SyncGc`;
4. `rbh-sync` and `rbh-fsevents` on one database at the same time;
5. SQLite's updates against Mongo's; the groups of `rbh-report`.

Proofs done, in this order: `AckSafe` and `LastReadForward` of `LustreAck`; the
hash map; `AckedInOrder` and `SuccessMeansAll` of the pipeline; the five
invariants of `Mirror`; `ReaderShown` and `IteratorsYieldAll` of the containers
and iterators; `EntryWhole`, the counters of the crawl by fts and the parallel
crawl of `Scan`. The modules of filters, serialization and policies have
RECURSIVE operators and stay with TLC.

## 3. Modules

### LustreAck, BatchList (`sources/lustre/ack.c`, `source_reader.c`, `lustre.c`, `deduplicator.c`, `rbh-fsevents.c`)

A record is the sequence of the ids its fsevents are about, empty when its type
is not managed; fsevent `<<i, k>>` is the k-th of record i. `log` and `purged`
are the MDT's, `last_read` and `done` (the fsevents stored) the sink's; the rest
is memory of the process, which `Crash` loses. `pc` is where the producer is:

| Action | Code |
|---|---|
| `Start` | `get_start_idx`, `lustre_changelog_iter_init` |
| `RecvManaged`, `RecvUnmanaged`, `EndOfData`, `RecvError`, `NextFsevent` | `lustre_changelog_iter_next`, with its `goto retry` (`pc = "retry"`) |
| `Push...` | `rbh_fsevent_pool_push`: kept, cancelled with what the pool had, or refused because the pool is full, when the fsevent waits in `last_fsevent` |
| `Flush`, `FlushNothing` | `rbh_fsevent_pool_flush` and `lustre_changelog_save_batch` |
| `Dispatch...` | the body of `producer_thread`'s loop |
| `Take`, `Process`, `ProcessFails` | `consumer_thread` |
| `Ack` | `lustre_changelog_ack_batch`, under its lock |
| `CrashInAck` | a crash between its calls to the MDT and to the sink |

`BatchList` has the loop of `lustre_changelog_ack_batch` as operators on the
list: which nodes it reaches, when `can_clear` holds at a node, which nodes it
clears. A fsevent cancelled in the pool counts as stored: nothing is left to
store. `MdtLog` and the meaning of `llapi_changelog_clear` (records up to the
index, all of them for 0) are external.

### FsEventsPipeline (`rbh-fsevents.c`)

Here the threads take small steps: a read of a flag, a signal, the start of a
wait. A worker's mutex is held when `cp` is `"check"` or `"to_wait"`; the other
critical sections are single actions. A signal wakes a thread only if it waits;
`SpuriousAvailable` and `SpuriousList` wake one for no reason. `missed` remembers
who was signalled between its check and its wait: the liveness properties except
exactly those. A batch is its
number and the workers concerned. `SinkErrno` says what errno may be when
`sink_process` fails.

### LustreRecords, FsEventPool, Mirror

`LustreRecords` has one operator for each `build_*_events` of `source_reader.c`;
`FsEventPool` one for each `dedup_*` of `fsevent_pool.c`, on a record with the
hash map, the list of ids, `count` and `need_to_flush`. `Mirror` puts them
between users and a database: an operation of a user changes the file system and
logs the fsevents of its record, in one step; the deduplicator pushes and
flushes; workers enrich and store; `Ack` acknowledges a batch when all of it is
stored, and `Crash` loses what is in memory and reads again all records that were
not acknowledged, on top of a database that may have part of them. `unacked` has
the fsevents of these records one after the other, `ends` the places where a
record ends: a batch covers the records whose last fsevent was pushed before it
was flushed (`Covered`), even when it has some fsevents of the next one.

Attributes are not values but freshness: `stale[i]` are the attributes of i that
changed since the database last got them. An enrichment clears what it reads;
what an operation changes is set when it happens. Directories always exist.
`Relink` and `DeleteMoved` let or forbid two kinds of history in which the code
goes wrong (section 5): the passing run shows that they are the only ones within
its bounds, and the theorems of section 6 without bounds. `AttributesMirrored` excepts the link count of a file that lost a
name; the counts of children and the absence of stale names are stated for
histories without crashes (section 5 says why).

### KeyValueMap, HashMap (`librobinhood/src/hashmap.c`)

`KeyValueMap` says what set, get and pop promise. In `HashMap`, the two loops of
`hashmap_key2slot` are the condition that a slot is the first to accept a key, in
the order `Probed`; the recursion of `hashmap_pop` is a sequence of steps, each
moving an item into `hole`, the slot being emptied. The hash function is any of
`HashFns`. `FsEventPool` uses the hash map as a function, which `HashMapIsMap`
justifies.

### RbhValues, RbhFilters, FilterBackends (`value.c`, `filter.c`, `filters/check_fsentry.c`, filters of mongo, sqlite and mpi_file)

Values have their types and widths (`W32`, `W64`), and the sizes that
`*_data_size()` and `*_copy()` compute. `Meaning` is the reference: what a filter
says of an entry. `FilterBackends` translates a filter as each backend does:
`MongoFilter` with negations pushed down and unsigned comparisons emulated,
for SQLite a text of tokens that is then parsed with SQL's precedence
(`SqliteMatches`), for mpifileutils chains of predicates (`MfuExecute`), and evaluates the result as the database (external) would.
The state is a filter that its callers build one node at a time (`AndLeft`,
`OrRight`, `Negate`, `AndNull`...).

### Predicates, Acl, Selinux, LustreAttrs, Retention, Extensions (`plugins/posix/filter.c` and `enrichers/`)

`Predicates` has the filters of the POSIX predicates, times, sizes and symbolic
modes included. The next four have, for each extension, what it stores of an
inode and the filters over that. In `Extensions` an inode changes by what users
do (`Setfacl`, `Chcon`, `SetExpires`, `AddComponent`, `Archive`...), calls of
liblustreapi fail (`CallFails`), and at each state the predicates over what would
be stored are compared with what they mean for the inode: the kernel's be stored are compared with what they mean for the inode: the kernel's access
check, the dominance of SELinux ranges, the date asked for. `mirror` is what the
last `Synchronize` stored of a directory, and all that `UpdateRetention` decides
from, whatever has happened to the directory since; `Delay` is the option
`--delay`.

### FindCommand (`rbh-find`, `filters/parser.c`)

One action per word of the command line, as `parse_expression` reads it; its
recursion is `stack`. An action of the command runs when its word is read, on the
entries that the filter built so far selects, with the projection `find_ctx`
holds. `Evaluated` is the reference: find(1)'s left to right evaluation, with
`Holds` the tests as find(1) documents them and `Departs` where the code answers
the contrary (section 5). `Formatted` is what the code that prints a directive
reads, stated apart from what the directive adds to the projection.

### Serialization, YamlFsevents, MongoDocuments, Wire (`serialization.c`, `fsevent.c`, `fsentry.c`, `sources/file.c`, `plugins/mongo`)

An fsevent is emitted as a YAML document (`Emit`), or someone else writes one
(`Write`); the source parses it (`yaml_fsevent_iter_next`) into its static
`statxbuf`; the sink updates a Mongo document (`Store`). `Feed` is an fsevent
that goes to Mongo without a file. The update of an upsert is a stage of a
pipeline (`SetStage`): maps are merged, and an upsert that has `$unset` or `$inc`
is refused (`PipelineFails`). `Read` is what a reader
gets back for a projection. Documents are trees of nodes: texts and numbers are
kept as such, the digits of numbers in the bases of the code.

### Rings, Iterators, BranchIterator, Structures (`ring.c`, `ringr.c`, `queue.c`, `stack.c`, `itertools.c`, `generic_branch.c`)

`Rings` has the containers as operators on records, with byte offsets modulo the
size. `Iterators` has the two sides of a tee over queues and the chunks of a
chain; `BranchIterator` the steps of `branch_next_fsentries` with its two rings
and their two readers each, and failures of the backend anywhere. `Structures`
runs one of them at a time, or a ring with several readers.

The ring of the readers holds the numbers of the bytes pushed, so that a byte
overwritten or shown twice is seen; the rings of a queue carry a name each, so
that one lost or in two places is (`RingsKept`). Assumed of the constants:
positive sizes of rings, stacks and chunks, and the size of a ring below the one
of a `size_t`.

### FsTree, PosixEntries, SyncGc, Scan (`plugins/posix`, `rbh-sync`, `rbh-gc`, `plugins/mongo/mongo.c`, `plugins/mpi_file`)

`FsTree` is the file system and its users: create, link, rename, unlink, mkdir,
rmdir. `PosixEntries` reads one entry after another, a step for each system call,
while they change: `freadlink` doubles its buffer until the target does not fill
it, `flistxattrs` and `Measure` alternate until the names fit, a round of
`getxattrs` reads one value. The buffers stay from one entry to the next. `pair`
is computed before the array of pairs grows (`posix.c:239`): when `realloc` moves
the array, the pair is written to the old one (`dangling`). `SyncGc` is the crawl by
fts (`SeeTop`, `SeeFile`, `SeeSubdirectory`, `Descend`, `Unreadable`, `Leave`,
`Stop`), the chunks of fsevents and their updates (`UpdateChunk`, `BulkFails`,
`EndSync`), and the collection (`GcStart`, `GcCheck`, `GcCrash`, `GcUpdate`,
`GcEnd`), with `User` steps between any two. The bulk of Mongo is not ordered:
`BulkFails` stores any part of its operations (`Bulk`). `Scan` adds the parallel crawl: each rank's part of
the list of mpifileutils, and the order in which their counts reach the database.
`calm` is "synced" when a synchronization ended during which nobody changed
anything and nothing failed.

### PolicyConfig, Policy (`rbh-policy`, `policyengine`, `plugins/posix/action.c`)

`PolicyConfig` translates a condition into the predicate that `build_filter`
passes on and evaluates triggers, percentages as floating-point numbers of
`DoubleBits` bits. `Means` is what the text of a condition says, `Departs` where
the translation selects the contrary. `Policy` runs the policies: `RunPolicy` asks
the trigger and collects, `NextPolicy` and `EndPolicy` bound a run; each entry is
located by its id (`Locate`), read again (`Read`), matched with the rules
(`Apply`), deleted with its empty parents (`Delete`, `RemoveParent`) or logged
(`Log`); users act in between (`UserActs`).

## 4. Passing runs

| Run | Bounds | States | Shows |
|---|---|---|---|
| `lustre_ack` | 2 workers, 3 ids, pools of 2 ids, 4 kinds of records, 3 records, 2 starts | 610,375 | `TypeOK`, `AckSafe`, `LastReadForward` |
| `pipeline` | 2 workers, 2 batches, any failure | 76,360 | `TypeOK`, `SuccessMeansAll`, `AckedInOrder`, `WorkIsTaken`, `ThreadsEnd` |
| `mirror` | 2 files, 2 directories, 1 name, pools of 2 ids, 3 operations or crashes | 568,156 | `TypeOK`, `PoolConsistent`, `NamesMirrored`, `AttributesMirrored`, `ChildrenCounted`, `CatchesUp` |
| `hashmap` | 3 slots, 4 keys, 2 values, all 81 hash functions | 86,988 | `TypeOK`, `Probing`, `IsMap`, `PopReturns` |
| `filters` | widths of 5 and 6 bits, 46 comparisons, 2 logical nodes, 9 entries | 22,906 | `FiltersAgree`, `CloneFits` |
| `extensions` | 3 operations on an inode, 6 on a directory with a retention, 18 SELinux levels, 4 kinds of components | 80,247 | `PredicatesAgree`, `PairsFit`, `RetentionHonoured` |
| `find` | command lines of 6 words out of 7, of 3 out of 25, each of 191 tests alone and before another word; 2 backends | 321,214 | `SelectsAsFind`, `FieldsRead`, `CheckedExecFresh` |
| `wire` | 4 fsevents in sequence, through a file or straight to Mongo; a buffer that some documents exceed | 195,233 | `YamlWhole`, `ReadBack`, `MemoryFits` |
| `structures` | rings of 4 to 13 bytes, 3 readers, 7 elements, 9 entries, 2 failures | 125,141 | `ReaderShown`, `IteratorsYieldAll`, `BranchWhole` |
| `scan` | a directory, 2 files, 2 names, 2 runs of rbh-sync, 1 of rbh-gc, 2 changes or failures, any part of a failing bulk stored; 10 ways to deal the entries to 2 ranks | 2,470,002 | `EntryWhole`, `SyncedWhole`, `CountsRight`, `Collected` |
| `policy` | 2 directories, 2 files, 8 configurations, 2 steps of users, floating-point numbers of 13 bits | 4,052,287 | `RemovedSafely`, `RulesApplied`, `LoggedWhere`, `ConfigAgrees` |

A property such as `SyncedWhole` is the conjunction of named parts, each stated
with its comment in the module that it is about.

Why the bounds are enough for the interesting cases:

* `lustre_ack`: three records of one to two ids in pools of two ids make up to
  three batches, a record split over two, and batches for one or both workers,
  so that a newer batch can end before an older one; the second start follows a
  crash at any point. The theorem of section 6 removes the bounds.
* `pipeline`: the second batch is needed for order and for a producer that waits
  while both workers are busy. errno ENODATA is excluded for a failure (section
  5).
* `mirror`: three operations reach create-rename-delete, create-link-unlink, a
  rename over another file, and one id's fsevents spread over two or three
  batches; a crash takes the place of one of them. Two directories make the
  counters of children differ.
* `hashmap`: all hash functions include all keys on one slot and wrap-around
  from any slot; four keys for three slots fill the table. Four slots and five
  keys (589,212 states) also pass.
* `filters`: the values of comparisons and entries are the edges of the widths
  (0, 1, the largest signed, the first that is not, the largest), where the
  emulation of unsigned comparisons may fail, for owners and counts of links
  too; two nodes nest a negation in each logical operator.
* `extensions`: two named users and groups, with a mask or without; levels with
  adjacent, overlapping, unordered and empty categories; layouts with an
  extension, an uninitialised and a DoM component. Six steps on a directory are
  a file, a retention, an `rbh-sync`, what happens after it (two of a file, a
  retention, another run), and `rbh-update-retention`.
* `find`: six words reach `( a -o ! b )`, an action on both sides of `-o`, and
  two actions in a row; every test is tried alone on entries at the edges of its
  units (one second around a minute and a day, one byte around a block), and
  `-perm` and `-newer` around `-checked-exec`. One entry gives its owner less than
  its group, one its group less than the others, and one user has a secondary
  group; every directive of `-printf` follows every action.
* `wire`: four fsevents show what is left over from one to the next, an upsert
  that meets the map of an earlier one included; values are at the edges of
  their widths.
* `structures`: a ring that wraps around twice, is full, and has a reader made
  or destroyed at any time; the two rings of a traversal fill up one before the
  other. Sizes that fill the ring of ids to the last byte are excluded (section
  5).
* `scan`: chunks of three fsevents split the two of an entry; a bulk that fails
  stores any part of its operations, of which a LINK is two; two changes reach
  a rename into a directory being crawled, a removal followed by a creation under
  the same name, a hard link whose other name goes, and a failure after a change.
  The buffers of one entry are small, so that a link and a list of names outgrow
  them and the array of pairs grows, moved or not. The dealings split a directory
  between ranks, skip entries that vanished with or without their directory, and
  put an empty directory after a run of skipped entries.
  The pairs that rbh-gc looks at are a snapshot taken in one order; the two
  commands do not run at the same time; a run into an mpi-file is the last one.
* `policy`: a path of three names, a file with two; two steps of users reach a
  rename and a replacement between look-up and unlink. Ages of conditions lie
  around each bound. 13 bits (`DoubleBits`) stand for the 53 of a double: at both
  lengths, 29 of 100 comes out below 29 % and 7 of 100 above 7 %.

Deadlock is checked in `pipeline` (`Finished` is the end) and `hashmap`. The
others may stop: users need not act, a process may stay down, a command line or
a list of documents ends.

Fairness. `pipeline`: a thread that can run does run, and the sink returns; no
fairness on spurious wake-ups. `mirror`: the producer and each worker go on; none
for users or crashes. `hashmap`: a call that was made runs to its end. Nothing
more is assumed; the other runs have only safety properties.

Every property of a passing run has at least one mutant in `PROJECT.json`, and a
property made of several parts one for each of them: a change of one mapped
definition, as a plausible slip in the code would make it, under which TLC finds
the property violated.

## 5. Where the code departs from what it says

`lustre_ack_three_workers` shows `AckSafe` violated: acknowledging a batch that
still needs another worker clears newer finished ones (`ack.c:144`), although the
comment above the loop says that no older batch may be unfinished.

The other departures met have no run of their own. Either a property excepts
exactly them, or a constant of the passing run excludes them; changing it makes
TLC show the case.

### Settings

| Setting | What happens |
|---|---|
| `lustre_ack`, `ReaderResumes = TRUE` | `empty` stays set when the reader has records again (`source_reader.c:739`): the index saved for a full pool covers the record kept in memory, `AckSafe` fails |
| `lustre_ack`, `BatchSize = 1` | the index saved for the first record is 0 (`ack.c:67`), and a clear of 0 drops every record |
| `lustre_ack`, `MaxChangelog > 0` | unmanaged records jump past the test of `--max` (`source_reader.c:835`), and more records than asked for are read |
| `pipeline`, `SinkErrno = {"error", "ENODATA"}` | a sink failure with errno ENODATA looks like the end of the work (`rbh-fsevents.c:468`), `SuccessMeansAll` fails |
| `mirror`, `Relink = TRUE` | a file renamed away and back within a batch loses its name (`fsevent_pool.c:886`) |
| `mirror`, `DeleteMoved = TRUE` | a known file renamed, then deleted, within a batch stays in the database (`fsevent_pool.c:758`) |
| `structures`, ids that fill their ring exactly | a full ring whose reader has read everything looks empty to it (`ringr.c:37`): entries are skipped, ids overwritten |

### Exceptions in properties

* `ThreadsEnd`: the last wake-up of an idle worker (`rbh-fsevents.c:642`), or the
  one of the producer (`rbh-fsevents.c:412`), can be lost when it falls between a
  check and the wait; the thread then waits for ever.
* `AttributesMirrored`: unlinking one of several names leaves the link count as it
  was (`source_reader.c:391`).
* `NamesMirrored`, `ChildrenCounted` after a crash: a create that is read again
  cancels with a later unlink or delete although it was stored, so a name stays;
  an increment of `nb_children` that is read again is counted twice.
* `ReaderShown`: a reader that has read the whole of a full ring is starved by
  the next push.
* `IteratorsYieldAll`: when sharing an element failed, the side that has it may
  yield it twice (`itertools.c:281`).
* `FiltersAgree`: Mongo and SQLite disagree on negations over missing fields; SQL
  texts of a negated REGEX on a name or of an inner OR lack parentheses; SQLite
  caps values at the largest signed integer; `check_fsentry.c` answers no for
  bit tests and arrays, and compares the whole `st_mode`. Mongo stores `uid`,
  `gid` and `nlink` as int32 (`mongo/statx.c:74-82`) while their predicates compare
  unsigned 64-bit integers (`posix/filter.c:586`, `632`, `677`): entries from 2^31
  on are negative there and compare wrongly (`StoredNegative`).
* `PredicatesAgree`: one failing call of liblustreapi drops all the attributes of
  an entry; `PairsFit` is about files, as one pair too few is asked for a
  directory.
* `RetentionHonoured`: `rbh-update-retention` only reads the mirror. Files used
  since the last `rbh-sync`, and a retention set since, do not save a directory
  that had files or has a date; what was created since saves one that was empty
  (`find -exec rmdir`). A directory with a date is deleted up to `--delay` before
  it (`rbh-update-retention.py:71`), although the option is said to notify.
  That another directory takes the path meanwhile is not modelled.
* `SelectsAsFind`: ages between n and n + 1 units are more than n, and one of
  exactly n units is not n (`timedelta2filter`, `posix/filter.c:771`);
  `-size 0` takes the sizes of one unit and not of 0, `-size -0` takes 0;
  `-readable` and the like grant what any class grants and do not know secondary
  groups (`posix/filter.c:653-703`); a comparison with the time of a file
  (`-newer`) crashes when its filter is NULL (`filters/core.c:145`). An action after a second `-o`, or after one in parentheses
  that follow a predicate, also runs on entries that the left side has taken
  (`filters/parser.c:148-181`); `! -print` changes the filter of what follows.
* `CheckedExecFresh`: the second look answers "no" to tests of permissions and
  to `-newer`, so that under `!` the command runs on an entry that no longer
  matches (`! -perm -4000 -checked-exec`); of a symbolic link it looks at the
  target (`posix.c:924`).
* `YamlWhole`: the id of the mount is not written (`emit_statx`,
  `serialization.c:1724-1843`), although an enriched upsert has it
  (`merge_statx`, `statx.c:176`) and Mongo stores it; an upsert with nothing else
  has an empty statx. A value of type double cannot be parsed back; fields that an
  earlier upsert set stay in the mask of the next (`serialization.c:2226`;
  `sources/file.c:46` only clears the fsevent); an update without effect ends the
  source.
* `ReadBack`: unsigned values come back signed, a null as an empty binary;
  an upsert that removes or increments an attribute is refused, and one that sets
  a map adds to the map that was there (`mongo/fsevent.c:62-91`). Strings that start
  with `$`, which a pipeline evaluates, and an XATTR that sets `nb_children`,
  whose condition is stored as text, are excluded.
* `EntryWhole`: a number too large for a configured int32 or uint32 is truncated;
  of an entry with more than 128 attributes, the one at which the array grows may
  be lost, because `pair` still points into the old array (`posix.c:239-249`).
* `SyncedWhole`: an entry whose fsevents are in two chunks makes two records of an
  mpi-file. A bulk that fails may have stored the LINK of an entry without its
  UPSERT (`mongo.c:424`, `624`): `rbh-gc` reads the link count that is missing
  (`rbh-gc.c:317`) and crashes on each run until the entry is synchronized again.
  The operations of one bulk that say the same of the same name are one here.
* `CountsRight`: a synchronization in the same second as the last count does not
  replace it; a directory that was skipped leaves a counter one too low; the
  parallel crawl does not set to 0 the count of an empty directory when the
  entries before it on its rank were skipped, back to a directory;
  children dealt to several ranks are counted in parts.
* `Collected`: an entry renamed with one link keeps its old name; a name whose old
  path leads to another entry stays.
* `RemovedSafely`: a user who acts between the look-up and the unlink has another
  entry deleted; a floor that is not above the entry is ignored.
* `RulesApplied`: failed actions use up a count; hard links are several entries.
* `LoggedWhere`: after a log file could not be opened, the next line to the same
  file breaks the program (`policyengine/actions.c:446`).
* `ConfigAgrees`: a duration is a number of minutes or, from one day on, of days,
  without the rest, so 36 hours are one day; then `>=` selects from one unit
  earlier, `<=` up to one unit later (`<= 2d`: less than 3 days), `==` refuses
  exactly that age (`AgeDeparts`). A size of 0 units is one of at most one unit;
  operators other than `!=` are lost on users. Conditions that mean nothing are
  accepted (`Meaningless`: an age without a unit, a size in days, `DirCount`); dates
  are not modelled. A percentage is rounded twice (`triggers.py:338`), so that 29
  of 100 is not at least 29 (`AtThreshold`); a percent trigger without capacity
  raises.

### Outside the properties

* `rbh-gc` never sees a document that is left without a name (the `$unwind` of
  `mongo.c:121`), and reads the path untested.
* The second look at a symbolic link by a policy also reads its target.
* A directory moved away during a crawl stops fts: the run fails and loses its
  chunk (Mongo), or ends as a success (mpi-file).
* A hard-linked entry whose directory was renamed has a stale path: until the next
  synchronization, a collection deletes its live link.
* `rbh-sync --one` on a mount point links it under its real parent.
* The stop trigger of a policy never fires: the callback asks for an attribute
  that policies do not have (`cpython.py:218`).
* `DirCount` conditions select every entry: the predicate is unknown, and the
  NULL filter matches all (`backend.c:302-333`).
* `merge_statx` adds the mode bits of the second statx (`statx.c:144`);
  `rbh_sstack_pop_all` does not empty the first stack (`sstack.c:124`).

## 6. Proofs

### LustreAckProofs

`TypeCorrect` and `AcknowledgedIsStored`: `Spec => []TypeOK` and
`Spec => []AckSafe`, for any set of ids, any kinds of records, any hash onto the
workers, any number of records and restarts. Assumed are the constants'
assumptions in `LustreAck` and `SafeSetting`: at most two workers, no reader that
resumes, and a pool that one record cannot fill. Each of the three is necessary:
section 5 says what happens without it.

`AckSafe` is not inductive: it says nothing of what is between the changelog and
the sink. `IInv` (end of `LustreAck`) adds

* `SourceInv`: the fsevents not flushed come from the records read, those not
  pushed from the last one;
* `CounterInv`: the source's and the producer's counters of batches agree;
* `FifoInv`: a worker has its sub-batches in the order of the batches;
* `ListInv`: `ack_required` of a node counts the workers that still have a
  sub-batch of it, and when it is 0 some worker is past that batch;
* `OrderInv`: the index of a node covers no fsevent of a later batch, nor one not
  flushed yet; it is why the index is one less when a record is kept in memory;
* `TrackInv`: each fsevent of a record read is stored, not flushed, or in a
  sub-batch somewhere;
* `LastInv`: at most one fsevent is set aside.

`Ack` is the difficult step. A node is cleared when no node before it is
unfinished, in the sense of `can_clear`. With two workers, the batch being
acknowledged is finished, or the other worker still has it, and then cannot have
finished a newer one (`FifoInv`); the second part of `ListInv` gives that
argument for nodes already at 0. So every older batch is finished, and by
`TrackInv` and `OrderInv` whatever the index covers is stored.

`LastReadMovesForward`: `Spec => LastReadForward`, under the same setting.
`ForwardInv` adds to `IInv` that the indexes in the batch list never decrease and
lie between `last_read` and what the next batch will save. The index saved is one
less than the last record read when a record is kept in memory, and could go back
by one; it does not, because a pool that is flushed for being full was filled by
records of this run.

### HashMapProofs

`TypeCorrect`, `ProbingHolds` and `HashMapIsMap`: for any keys, values, hash function and
positive number of slots, `Probing` is invariant and `HashMap` implements
`KeyValueMap`, with the items of the slots in use, other than the hole, as
bindings. The lemmas on `Probed` do the work: of two slots one is probed first
(`ProbedOrder`), `is_between` is membership in the probing order
(`BetweenIsProbed`), and orders compose (`ProbedPrefix`). `NoneDisplaced` is the
heart of the removal: when the scan ends at a free slot, an item that the hole
displaced would lie after that free slot, which `Probing` forbids. That set fails
exactly when the map is full is counted with a bijection between slots in use and
bindings (`Counting`).

### PipelineProofs

`TypeCorrect`, `OrderKept` (`AckedInOrder`) and `SuccessIsWhole`
(`SuccessMeansAll`), for any number of workers and batches, any way to deal ids
to workers, lost and spurious wake-ups. `SuccessIsWhole` assumes
`SinkFailuresAreErrors`: a sink that fails with ENODATA is taken for the end of
the work (section 5).

`IInv` says where each sub-batch is (`GivenInv`: acknowledged, being worked on,
listed, or still to be handed out by the producer), that these are in the order of
the batches (`OrderInv`), that the producer is past handing out once it has
announced the end (`ProducerInv`), and that a worker that has ended left nothing
in its list (`EndInv`). The last two clauses hold only as long as nobody fails,
which is the reason for `Failing`: between the failure of a worker and its
announcement there are steps in which the others may already end.

### PoolProofs, MirrorProofs

`PoolProofs` has what one push does to a pool, for any ids and fsevents: the
pool stays `Consistent` (`PushFacts`), and the list of one id changes in one of
seven ways (`Changes`; as sets, `Grows`, `Merges`, `Cancels`, `Drops`,
`Replaces`), which is all that the proofs about the database use of
`fsevent_pool.c`. Extrema of sets of numbers come from the well-foundedness of
`<` (`LeastNatural`).

`MirrorProofs` proves for any files, directories, names, size of the pool, and
number of operations and crashes:

| Theorem | Assumes | States |
|---|---|---|
| `TypeCorrect`, `PoolStaysConsistent` | | `TypeOK`, `PoolConsistent` |
| `NamesAreMirrored` | `~Relink`, `~DeleteMoved` | `NamesMirrored` |
| `AttributesAreMirrored` | `~Relink` | `AttributesMirrored` |
| `ChildrenAreCounted` | | `ChildrenCounted` |

The two assumptions exclude the histories in which the deduplicator goes wrong
(section 5). What the database holds after a catch-up is not inductive: each
invariant says what is still owed by the fsevents on their way, which are to be
pushed (`Coming`), in the pool (`Cached`), with a worker (`Queued`), or not
acknowledged (`Logs`).

* `TypeInv`: types, and that what is to be pushed is the end of what is not
  acknowledged, with nothing of it covered by a batch: it is why a crash loses
  nothing.
* `NameInv` adds that a name that exists is in the database, or that its LINK is
  on its way *and* will be read again after a crash; that an UNLINK or DELETE on
  its way is about what is gone for good (`HistoryInv`: here `~Relink` enters);
  and that the LINKs in the pool come from records that no batch covers
  (`RecentInv`), so that an acknowledgment does not forget them.
* `CleanInv`, for histories without a crash, is about what is gone: whatever the
  database has, or will have, of it is followed by an UNLINK or DELETE
  (`GoneInv`, `DeadInv`). A cancellation in the pool takes away both, so the LINK
  it cancels must be the only one and the database must not have it (`OnceInv`);
  a DELETE that is dropped with a list that has a LINK must be about a file that
  the database does not know (`NewInv`: here `~DeleteMoved` enters).
* `AttributesInv` adds that an attribute that is stale is read by an fsevent on
  its way and by one that is not acknowledged (`AttrInv`, `ReadInv`). An XATTR on
  an entry that the database does not have is lost, so a file that exists and is
  not in the database is `Announced`: the first fsevent about it to reach the
  database is a LINK (`BornInv`). That rests on LINKs being put at the head of
  the lists of the pool (`OrderInv`, the comment in `fsevent_pool.c` on links).
* `ChildrenInv`: for each directory, `nb_children`, the increments sent, those in
  the pool and those to be pushed add up to the number of names in it. A sum over
  a list is stated by its partial sums (`IsSum`: a function from 0 up to the
  length), which needs no recursion: concatenation, removal of the head and
  replacement of one element have explicit witnesses. Each operation of users
  changes the number of names by what its record adds (`UserCounts`).

TLC was used on each of these invariants, on the instance of the run `mirror` and
with `Relink` and `DeleteMoved` allowed where the theorem does not exclude them,
before the proof.

### StructuresProofs

`ReadersAreShown` and `IteratorsGiveAll`: `Spec => []ReaderShown` and
`Spec => []IteratorsYieldAll`, for any sizes, readers, sources and chains, from
the assumptions on the constants in `Rings`, `Iterators` and `Structures` alone.

* `RingrInv`: the ring of several readers holds, from its head on, the bytes
  that the slowest reader has not acknowledged; each reader's place is the number
  of bytes it has acknowledged, modulo the size of the ring. A reader at the
  ring's head has read nothing or everything, and `starved` tells which: the
  clause is false once a byte is pushed to a starved reader, which is why
  `ReaderShown` stops there. Whether the head may move after an acknowledgment
  (`ringr_max_readable`) is a greatest number of a set, which comes from the
  well-foundedness of `<` (`LeastNumber`).
* `TeeInv`: for each side (`SideOK`), what it has returned, followed by the
  elements in the rings of its queue, leads to where the source stands, each
  element following the one before it (`Linked`); when the last one could not be
  shared, it is in `next` and the queue leads up to it. The rings held by the two
  queues, between head and tail or in the pool, have different names, and their
  names are the numbers up to `made`; those of a pool are empty. A pool is a stack
  of stacks: `PoolNames` and `DistinctPool` say what a push to it or a pop from it,
  over the border of two stacks, does to the names.
* `ChunkInv`: the chain stands after `Position` elements, those given and those
  that wait as the first one of a chunk; each value was given or waits as often as
  it is among these elements; a chunk has given its size less what it may still
  take. `ChainAt` says what the two iterators of a chain look like there, whichever
  of an array, a list and a ring they are.

### ScanProofs

Four theorems about `Scan`, for any file system, users' changes, failures,
buffers, ranks and ways to deal the entries. They rest on two assumptions about
the constants. `EntryAssumption`: sizes are natural numbers and the buffers are
not empty. `DealAssumption`: mpifileutils deals each entry once, the mount point
first on rank 0; an entry whose directory vanished has vanished too, and the
directory above the mount point has not.

* `EntriesAreWhole`: `Spec => []EntryWhole`. `EntryInv` says what the buffers
  hold before each call: no name and no value before the list is complete
  (`Fresh`); in the loop of `getxattrs` (`Asked`), the pairs kept are as many as
  the answers less the skipped ones, the array has room for them, and the pair of
  a name is at the number of names kept up to it (`Place`), with that name's
  value, unless it is at a place left behind by `realloc`; such places come only
  after the first 128.
* `CountersAreRight`: `Spec => []CountersMatch`. `CrawlInv` adds to it what keeps
  the counts: the stack has a value for each directory that is open, the names
  counted in a directory are not among those still to be seen, and the directory
  that is open below is in neither of both (`Apart`), so that each is counted once.
* `EntriesAreSentOnce`: `Spec => []MfuSentOnce`. `MfuInv`: what was sent is what
  was found among the entries that the ranks have passed, as many as there are of
  them, and `parent_id` belongs to `parent` except for the mount point's.
* `ParallelCountsAreRight`: `Spec => []MfuCounted`. `CountInv` adds for each rank
  where the entries that it counts begin (`RunFrom`); that the directory of an
  entry it has passed is the one it counts for, or its final count was sent
  (`CountedBehind`); and that a directory it has passed was set to 0, or follows
  skipped entries (`ZeroBehind`). In the database a final count is right and one
  that is not final is 0 (`CountOK`), which is where the order of arrival stops
  to matter. When a rank leaves a directory whose entries are together, those
  between `RunFrom` and the current one are all of them (`LeaveCount`).

The proof of the last one corrected its property: `AfterSkipped` excepted an empty
directory right after a skipped directory only, but `seen_first_time` also stays
false over the skipped files in between. A dealing of this kind is in `MCScan`
since.

### Only model-checked

Liveness (`WorkIsTaken`, `ThreadsEnd`, `CatchesUp`, `PopReturns`), which the
prover does not handle; the modules with recursive operators, or that use such a
module (filters, extensions, find, serialization, policies); of `Scan`, what the
database holds after a run of rbh-sync or rbh-gc (`NamesSynced`, `ChildrenSynced`,
`LinkCountKnown`, `FlistWhole`, `Collected`), since an update of the database
folds over the fsevents of a chunk and what a fold leaves takes an induction over
them; the traversal of a branch (`BranchWhole`), whose completeness is about
the whole tree that was listed through the two rings.

## 7. Not modelled

Memory management (free lists, shallow copies), the text of formats (YAML, BSON
and SQL are trees or tokens), option parsing, help texts, logging, statistics
and `-printf`. In the Lustre source: HSM, layout, FLR and migration records, and
the mode without deduplication. In the enricher: errors of a part. Values of
attributes in `Mirror` and `Scan`, where their freshness is what counts. In
Mongo: groups, sorts, and the info, log and metadata collections. SQLite's
updates, S3 and ldiskfs, which are drivers around a library. The parts listed in
`PROJECT.json` with status `not_modelled`, with the reason.
