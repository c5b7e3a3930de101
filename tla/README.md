# A verification of the pmem/NVMe drop-in benchmarks

The repository holds two benchmark suites. `src/microbenchmarks` is a C++
program, `bufman`, that runs page-oriented and log-oriented workloads over
buffer files in one or more directories, through one of six I/O engines;
`src/tpc_postgres` holds shell scripts that run TPC-H on PostgreSQL. This
directory models the C++ program, the Python scripts that drive it and the
TPC-H scripts in TLA+, model-checks them on small instances with TLC and proves
theorems about all of them with TLAPS.

What the program claims is that its writes are *durable and comparable*: every
engine's `write()` ends in a flush, so that the bandwidth measured is that of
writes that have reached the medium. The models therefore make the layers
explicit: the caller's memory, the stdio buffer, the kernel's copy (or the CPU
caches above a pmem mapping), and the medium. They ask what an answered write is
worth when a call fails, the process dies or the power is lost.

## Inventory

| component | source (under `src/`) | state | operations | what makes it correct |
|---|---|---|---|---|
| I/O wrappers | `microbenchmarks/src/lib/iowrapper/` | file size, stdio buffer, mapping, file contents | constructor, `read`, `write`, `get_filesize`, destructor | a write that returns has been flushed; reads see earlier writes; nothing outside the page is touched |
| buffer manager | `microbenchmarks/src/lib/buffer_manager.cpp` | vector of wrappers | constructor, `pagein`, `pageout`, `lookup` | pages are disjoint and inside their files; an answered page is durable; the status tells what happened |
| logging workload | `.../workloads/logging.cpp` | page buffer, entry buffer, page id, counters | `run`, `update_watermark` | logged entries stay on the medium in order although pages are rewritten in place |
| simple logging workload, appendable files | `.../workloads/logging2.cpp`, `lib/append/` | file, offset, pool | five constructors, `allocate`, `append`, `run` | appended entries stay on the medium in order over whatever was there |
| random and scan workloads | `.../workloads/buffermanagement.cpp`, `tablescan.cpp` | target buffer, pool of random pages, slot, page id, counters | `run` | reads land inside the target buffer; what is counted has been transferred; writes come from the pool of random pages; a scan is even |
| utilities | `lib/util.cpp` | none | `AlignedMemoryBlock`, `crash`, random engines, log output | the aligned block is large enough |
| main program | `microbenchmarks/src/bin/bufman.cpp`, the parser of `include/argh.h` | options, buffer files, child processes | parse, construct, run; `--initialize`, `--scramble` | the options are what the command line says; a workload starts only without the two flags; initialised files fit; nobody works on a file beside a measurement |
| benchmark harness | `microbenchmarks/src/bench/` | test, results, started processes | `prepare`, `execute`, `finalize`, `Test.run` | rows come from complete, successful tests on prepared files and are labelled right |
| TPC-H driver | `tpc_postgres/*.sh` | server instances, data directory, database, steps of a command, rows | `prepare`, `run`, `run-quick`, `prepare-from-cache`, `run-from-cache` over start, stop, reset, restart | rows time queries that were executed; the data directory is not deleted under a server; a command ends with a server that works |

`bufman` is single-threaded. `main()` chooses an engine and a workload; a
workload calls `BufferManager::pagein/pageout`, which call one `IOWrapper` per
directory; the simple logging workload calls an `AppendableFile` directly. The
wrappers meet the environment: the kernel writes back cached data whenever it
likes, calls fail or transfer less than asked, processes end, power is lost, and
a later process finds the files that an earlier one left, perhaps with another
engine. These are the actors that interleave in the models of the C++ code. Real
concurrency is between processes: a benchmark script starts one `bufman` per
thread at once, and `bufman --initialize` and `--scramble` fork one child per
directory. They share the buffer files; who works on which file when is the
subject of `BenchmarkHarness`. The TPC-H scripts have nothing in common with the
rest; there the concurrency is between the shell, which goes on after a sleep of
fixed length whatever has happened, and servers that boot and stop in their own
time.

`PROJECT.json` lists, under `hazards`, each place where this can go wrong in a
way a test would hardly reach, with the properties that cover it or the reason
that none does.

## Modules

### IOWrapper and BufferManager

`IOWrapper` models the class hierarchy over one file per directory. `cache[b]`
is what a read, a mapping or a load sees of the file, `media[b]` what survives a
power failure, `stdio[b]` what `fwrite()` has accepted and not handed to the
kernel; `size[b]` is the file size. A `write()` is two steps, *transfer* and
*flush*, because a crash can fall between them; `call` is the call in progress.

| engine | class | transfer | flush |
|---|---|---|---|
| `LINUX`, `LINUX_DIRECT` | `LinuxIOWrapper`, `DirectLinuxIOWrapper` | `LinuxTransfer` (lseek, write) | `Fdatasync` |
| `STD` | `STDIOWrapper` | `StdTransfer` (fseek, fwrite) | `Fdatasync`, without `fflush()` as in the code |
| `MMAP` | `MmapIOWrapper` | `MmapTransfer` (memcpy) | `Msync`, with the code's range |
| `LIBPMEM2` | `LibPMIOWrapper` | `LibPMTransfer` | `LibPMPersist`, the two halves of one `pmem2_memcpy()` |
| `ASM` | `ASMIOWrapper` | `ASMTransfer`: warns and does nothing | none |

`BufferManager` extends it with the constructor (`OpenBuffer`, one directory at
a time, each outcome of each engine's constructor, then the size check),
`Pagein`, `Pageout`/`WriteStep`/`PageoutReturn`, both calls with a refused id
(`Rejected`), and the life of the process: `Crash` (a call fails and `crash()`
exits), `Close`, `LosePower`, `Restart` with any engine, `KernelWriteBack`.
`acked` and `unstored` are history variables, which only the properties use: the
data of the last write of each page whose `IOWrapper::write` returned 0, whatever
the engine, and the pages of which that last write went to the ASM engine, whose
`write()` returns 0 and stores nothing (`asm_iowrapper.cpp:730`). The properties
about answered writes name the engines they are about, or leave `unstored` out.

`PageStore` is the abstract specification: one array of pages that a completed
write changes durably and nothing else does. Files, striping, engines, caches,
crashes and restarts do not appear in it. `ImplementsPageStore` maps the store
to the medium.

### LoggingWorkload, AppendLog, DurableLog

`LoggingWorkload` is `run()` of `logging.cpp`, one action per branch:
`StartEntry`, `FillPage` and `ExtendPage` (the two branches of the chunk loop),
`UpdateWatermark`, `EndEntry`, `Finish`, and `PageoutReturn` with the early
return on a failed status. Of the buffer manager it knows what `BufferManager`
shows of `pageout()`: an id past the last page is refused; otherwise the cells
of the page reach the medium in any order before the call returns. The status
it then returns is the constant `WriteStatus`.

`AppendLog` is `run()` of `logging2.cpp` with the five `AppendableFile` classes:
`Remove`, `CreateFile`/`CreatePool`/`OpenPool`, `Allocate`, then `WriteEntry` and
`SyncEntry` for files, `PoolCopy` and `PoolCommit` for pools of libpmemlog;
`DrawFails` is a round that dies of its draw from an empty pool or entry. The
initial states hold every kind of file an earlier run may have left. `O_APPEND`
is `WritePosition`: the LINUX class writes at the end of the file, the others at
their offset. The history variable `start` remembers where the log begins.

`DurableLog` is the abstract specification of both: the counted entries are on
the medium, in order, and never change or disappear.

### PageWorkloads and ASMLoads

`RandomRead`, `RandomWrite` and `ScanPage` are the iterations of
`BufferManagementWorkload::run` and `TableScanWorkload::run`; `AllocateBuf` is
the `AlignedMemoryBlock` they read into. Integers keep their width: `MaxPageId`
is `total - 1` in unsigned arithmetic modulo `IdRange`, `ToInt` the cast of the
block size to an `int` of `IntRange` values, and `PoolIds` the draw from the pool
of random pages, whose bound wraps around when the pool is empty. The engine
below is either one that copies pages or the ASM engine; `moved` counts what it
transfers, `processed` what the workload believes.

`ASMLoads` has the load sequences of `ASMIOWrapper::read` as the set of 64-byte
lines each touches: none for lengths that end in `crash()`, `Advancing` for those
that repeat the 8 KiB sequence with an advancing address, `NotAdvancing` for the
loop over more than 64 KiB, which repeats it from the same address.

### BufmanMain

`BufmanMain` is one command line after the other. An argument is a record of what
the parser looks at; `ParsePositional`, `ParseAssignment`, `ParseParam` and
`ParseFlag` are the branches of `parser::parse()` in the mode that `main()` uses.
`Configure` makes `main()`'s choice from `pos`, `params` and `flags`, with the
division that comes before the checks; `Initialize`, `Scramble`, `OpenBuffers`,
`AppendToLog` and `AppendFails` are its three modes seen from the buffer files.
The files stay when a command returns, so the next command meets those that the
last one left, perhaps with other sizes, another number of mounts or another
engine. `initialised` and `touched` are history variables for the properties.

### BufmanProcesses and BenchmarkHarness

`BufmanProcesses` has the commands that run (`live`), the children they have
forked (`children`), and of each buffer file only whether it is missing, too
short, prepared (initialised, scrambled, or a pool just created), or used by a
measurement. `ForkChild`, `Reap` and `ChildEnds` are `--initialize` and
`--scramble`; `WorkloadEnds` and `CannotOpen` stand for a whole run of the
workloads that the other modules open up.

`BenchmarkHarness` extends it with the five scripts; `script` says which one
runs. `Popen`, `PreparationEnds`, `CommandsEnd` and `PopenFails` are
`Test.run()`, `Prepare`, `NextTest`, `Finalize` and `CombinationRaises` the
benchmark around it. The scripts differ in their preparation (`--initialize`
once and `--scramble` before each test for pages, `--initialize` once for
prefaulted logs, a run that creates the pools before each test of libpmemlog,
nothing for LINUX logs), in their cleanup, in whether `Test.run()` swallows
exceptions, and in how they label a row. An exception that reaches the top ends
the script and leaves its processes to themselves.

### PostgresServer and TPCHDriver

`PostgresServer` is what `postgres.sh` and `defaults.sh` see of the server, which
is external: instances of one container (`Slots`) that boot, serve, stop, and
share a data directory and a port. `SeesRunning` and `SeesNothing` are
`is_postgres_running`, whose lookup runs the process ids of two instances
together; `PgCtlStop`, `Launch`, `Sleep`, `RemoveDir` and `PrepareDirectories` are
the functions. Failures are a boot that fails, a stop that fails or takes longer
than the script waits (`slow`), a server that dies, and a client that fails.

`TPCHDriver` has a command of `tpch.sh` as a list of steps with the number of the
next one (`line`): a shell script without `set -e` takes them one after the other
whatever becomes of them. A step that calls `postgres.sh` leaves in `todo` what that
does after its guards (`PostgresSh`), so the server can change between a guard and
what follows. `CheckForRecovery` waits, perhaps for ever, for an answer; `Query`
takes a time and writes a row whatever `psql` returned. The history variable
`settled` remembers whether a command began with at most one server, which served.

### MC modules and proofs

The `MC*` modules are what the configurations run. The theorems about a module
are in a module of their own: `BufferManagerProofs` and `DurabilityProofs` (which
builds on it and holds the refinement of `PageStore`), `LoggingWorkloadProofs`,
`AppendLogProofs`, `PageWorkloadsProofs`, `BufmanMainProofs`,
`BenchmarkHarnessProofs` and `TPCHDriverProofs`.

## Runs

| run | expects | shows |
|---|---|---|
| `bm_durable` | pass | with `LINUX`, `MMAP` and `LIBPMEM2`, two directories behave like one durable array of pages, through failing calls, one power failure or crash, restarts and changes of engine; no page leaves its file |
| `bm_visible` | pass | processes with all six engines follow each other while the power stays on: no write that another engine than ASM has answered is lost, and reads deliver it, across orderly ends, restarts and changes of engine |
| `log_durable` | pass | if `pageout()` reported success, packed entries would form a durable log, also through a power failure during the rewrite of a shared page; with entries that are not empty the workload ends, and it gives up only at one that does not fit |
| `app_durable` | pass | the same for the five append engines over every leftover file; the pool is large enough; with entries of size 0 a run never comes to its end |
| `wl_pages` | pass | over every combination of page size, pages, target slots, write proportion, pool and engine: reads stay inside the block, the scan is even, what is counted has been transferred, writes come from the pool, the workload ends |
| `main_commands` | pass | the parser and `main()` make of a command line what it says; initialised files are large enough for the pages a later command asks for; scrambling stays inside the mapping, and inside files that were initialised for as much |
| `tpch_driver` | pass | without failures rows are real; a preparation from cached data that finds the servers settled ends with a working one through slow and failed boots; the data directory is deleted under a server only after a stop that failed or a server that was slow to stop or to boot; a command ends or hangs in one known place |
| `bm_std` | violation | the STD engine answers writes that are still in the stdio buffer |
| `log_coded` | violation | with the status the code returns (`BM_WRITE_FAILURE` for a success) the logging workload aborts after one page |
| `log_watermark` | violation | page 0 never holds the watermark |
| `bench_tests` | pass | under the five scripts, with any one call failing, measured commands have their files to themselves, rows come from tests that ended on prepared files, every test has its rows, everything ends |
| `bench_failed` | violation | the scripts on pages record a row for a test that failed |

`log_durable` is a statement about the packing algorithm under a status that
`buffer_manager.cpp:71` does not return: the two runs `log_durable` and
`log_coded` separate what the algorithm does from what that line makes of it.
Of what `log_durable` checks, `AbortsOnlyWhenFull` and `Completes` do not hold with
the coded status.

Divergences seen while modelling that have no run of their own:

* I/O wrappers: `write(2)` may store a part of a page and pass for success
  (`linux_iowrapper.cpp:116`, the fault `short_write` of `IOWrapper`). A read by
  the ASM engine of more than 64 KiB loads only the first 8 KiB, again and again
  (`asm_iowrapper.cpp:723`), and a write by it moves nothing, yet both are counted:
  this is the premise `EngineMovesPages` of `ProcessedIsTransferred`. What such a
  write was given is lost although it was answered: the pages in `unstored`.
* Workloads: the random position in a log entry may be one past its end
  (`logging.cpp:29`). `run()` ignores the status of `pageout()`
  (`buffermanagement.cpp:36`), which hides the wrong status from the default
  workload. With an empty pool (`--randompages 0`) the index leaves the pool
  (`buffermanagement.cpp:68`; `WritesFromPool` says that only then), and so it does
  in `logging2` (`logging2.cpp:40`, the action `DrawFails`). A target
  buffer whose size an `int` cannot hold gets no block at all, and one of 2^32
  bytes or more a block that is too small (`util.cpp:80`, the premise of
  `ReadsInsideBlock`). `SimpleLoggingWorkload` leaves `use_fadvise` of its
  `IOWrapperConfig` uninitialised; it only decides on a hint to the kernel.
* Entries of size 0: `main()` takes `--le 0` without a word (`bufman.cpp:86`; the
  only check, `bufman.cpp:183`, is for entries that are too long). Both logging
  workloads then loop for ever, since a round adds nothing to `processed_data`
  (`logging.cpp:27`, `logging2.cpp:38`); with `committing` the first one dies of the
  status of its first commit instead. `Completes` of both modules says so
  (`log_entry_size = 0 => [](pc # "finished")`), and `BufmanMain` has the end `hung`.
  `next_random_data(log_entry_size - 1)` is called with -1 then (`logging2.cpp:43`),
  for which the distribution is undefined: `DrawFails` is the process dying of that;
  what a wild write could change in its memory is not in the model.
* Append classes: they ignore the result of `remove()` (`linux_append.cpp:21`) and
  a short count (`linux_append.cpp:41`). With `O_APPEND`, the space that
  `--logging-fallocate` allocates is never used: the log starts behind it.
* `main()`: the buffer size is divided by the number of mounts (`bufman.cpp:36`)
  before the message "no mounts given" can be printed, and by the page size before
  that is looked at. With both flags, `--initialize` is announced and scrambling is
  done. `--committing` is looked up among the parameters, so as a flag it does
  nothing. An option at the end of the line, or before another option, becomes a
  flag and its default is used; `--initialize=x` is a parameter and starts a
  benchmark. A directory that is given twice is two buffers in one file.
  `--scramble` maps `buffer_size` bytes of a file without looking at its length
  (`bufman.cpp:213`): a file that was initialised for less is overrun, and the child
  dies of SIGBUS behind its last memory page, of which nobody hears.
* Benchmark scripts: `final_buffermanagement.py` looks at the ninth of eight
  parameters and dies before its first test (`CombinationRaises`); the `rm` of
  `finalize()` is started without a shell and removes nothing (`RmEnds`); the
  script for LINUX logs labels rows of nvme directories pmem
  (`final_logging_linux.py:220`); when `fork()` fails, `--initialize` leaves its
  children writing, and the scripts on pages go on beside them (the condition
  `initResult = "None"` of `MeasuredAlone`).
* TPC-H scripts: the directory is deleted after a stop whose failure nobody looks
  at; a server whose directory is gone may go on answering, so
  `PreparedIsServing` does not hold with `stop_fails`. It does not hold either when
  a server is still booting as the command begins: the stop finds a server that is
  not that far yet, which comes up before its directory is deleted and then answers
  the checks. This takes eight sleeps that are too short,
  more than `tpch_driver` allows; it was met in the proof, and is why the property
  has the condition `settled`. Rows are written for queries that failed, so `RowsAreReal` needs `faults = {}`;
  `check_for_recovery` polls for ever when the server is gone (`Hung`).

### Bounds, and why they are enough

* `bm_durable`: two directories of two pages, so that two pages share a file and
  two do not, and striping differs from concatenation. A page has three units and
  a memory page four: one page of each file straddles a memory page and shares
  it with its neighbour, the case the rounding in `MmapIOWrapper::write` is
  about. Files are missing, one unit too short, or long enough. Two data values
  tell old from new. `MaxFailures = 1` bounds crashes and power failures; an
  orderly end and a restart are unbounded, and a state after a second failure
  differs from one after the first only in the counter.
* `bm_visible`: pages of one unit of 4096 bytes, for which the ASM engine has a
  sequence of loads; the six engines and two pages in each of two directories need
  the small pages (3,877,272 distinct states). A stdio buffer holds all of a page
  or nothing of it here; parts of pages are in `bm_std`, and the theorem `Visible`
  has pages and stdio buffers of any size. `LINUX_DIRECT` is only here, because its
  transfer and flush are those of `LINUX`.
* `log_durable`: on pages of three cells, entries of two cells lie inside a page,
  straddle two pages and end exactly on a boundary, with entries before and behind
  it; those of three fill a page, those of five are longer than one and have a
  whole page in their middle; those of none keep the workload busy for ever. The
  log fits the four pages; behind a header the last entry of two or of five cells
  meets the end of the space in its middle, after a part of it has been written.
* `app_durable`: leftovers are empty, shorter than the log but not a multiple of
  the entry, and as long as the log; entries of 0, 3, 5 and 13 cells are empty, fill
  the workload of 12, leave a rest of it, and are longer than it; there are entries
  to draw from, or none; the pool has exactly the room it needs, so an off-by-one
  in its size shows.
* `wl_pages`: units of 2048 bytes, pages of 4096 and 6144 bytes, 64 KiB and 72
  KiB: a short sequence of loads, none, the longest with an advancing address, and
  the loop without. `IntRange = 256` units make four slots of the long pages
  negative as an `int` and eight of them wrap around to a small number;
  `IdRange = 16` makes the id before page 0 visible. Pools and buffers with and
  without pages; `TotalWorkload = 73` takes a scan of three pages round many times.
* `main_commands`: commands of up to four freely combined pieces (options with
  values, flags, assignments, numbers, directories) over two directories and a
  name that is none, with options that matter to one workload, engine or size in
  front of up to two of them. The units divide each other as in the code, with `GiB = 16`,
  `MiB = 8`, a page of 4 and scrambling blocks of 2, so that sizes are and are not
  divisible by the number of mounts and by the page; `SizeT = 4096` lets large
  numbers wrap around. Any number of commands follow each other: the state between
  two is that of the files.
* `tpch_driver`: three instances (one that stays, one that stops, one that boots),
  three failures anywhere, two commands in a row, so that the second meets all the
  first may leave; two queries, with a restart behind each. Failures are remembered
  by kind for the properties. 549,825 distinct states. More than three failures are
  covered by the theorems, for the invariants of which the model was also checked
  with nine failures of the kinds `slow` and `boot_fails`.
* `bench_tests`: two threads and three directories, one combination of two and
  one of one, two runs each: logs are spread over directories, the combination
  that LINUX leaves out is there, files are used again with the same and with
  another number of threads. `MaxFaults = 1`, anywhere, at any call: what a
  failure leaves behind meets all that the script does afterwards. 1,425,121
  distinct states. More failures are covered by the theorems, the invariants of
  which were also checked with three failures and one run of each test.

### Fairness

`BufferManager` claims no liveness: a workload may stop calling at any time. The
workload modules assume weak fairness of the process's own steps, and of nothing
else: the process is scheduled and the system calls it makes return. It is one
condition for the whole of `Step` (or `Next` in `PageWorkloads`), not one per
action, because the process is sequential. `Step` of `LoggingWorkload` contains the
transfer of a page to the medium, so a write that has begun ends. Power failure
and write-back by the kernel are never forced. `BenchmarkHarness` assumes weak
fairness of the script and of the processes: `bufman` and `dd` go over a fixed
number of bytes, so a process that is scheduled ends. `TPCHDriver` assumes it of
the shell, and of each instance that it finishes booting or stopping (`Settles`):
`pg_ctl` itself gives up after a minute. It does not assume that
`check_for_recovery` is answered; `ScriptEnds` names that wait as the one place
where a command may hang. `BufmanMain` claims no liveness.

## Proofs

The theorems hold for every value of the constants that satisfies the named
assumptions of the modules: any number of directories, pages, threads, tests,
queries, instances and failures, any sizes. Every safety invariant, every action
property and every refinement of the passing runs is the statement of one.

**Buffer manager** (`BufferManagerProofs`, `DurabilityProofs`)

1. `TypeCorrect`, from `TypeInv`, `TypeOK /\ CallOK`: types alone are not
   inductive, because `OpenBuffer` indexes `size` with `opened` and the steps of a
   write index files with `call.buf`. `CallOK` says that a constructor at work has a
   directory left and that a write in progress is the write of one valid page.
2. `PagesStayInside`, from `FilesInv`: every directory opened so far has a file of
   at least `PagesPerBuffer * PageSize`; the arithmetic is `LookupInRange` and
   `PositionInRange`.
3. `Durable` and `ReadsAreLatest`, with `FlushingEngines`: processes are started with
   `LINUX`, `LINUX_DIRECT`, `MMAP` and `LIBPMEM2`, that is with neither STD nor ASM,
   and `write(2)` stores no part of a page for the whole.
   The medium alone is not inductive: a write-back by the kernel or an `msync()` of
   a shared memory page copies a neighbour from the cache. `DurableInv` adds that
   acknowledged pages agree in cache *and* medium, that no stdio buffer holds
   anything, and how far the write in progress has come. The lemmas are
   `PagesDisjoint` (two pages of one file share no unit), `SyncCoversPage` (the
   range given to `msync()` covers the page, for every position and memory-page
   size), `TransferWritesPage`, `FlushPersistsPage` and `OtherPagesKept`.
4. `Visible` and `ReadsSeeWrites`, with `QuietEnvironment` (no call fails, no crash or
   power failure), through any sequence of engines, STD and its stdio buffer of any
   size included. The ASM engine may take part; excepted are pages whose last write
   it was that answered (`unstored`), which are lost, and reads by it, which only
   load. `VisibleInv` speaks of what a read sees, the cache under the stdio
   buffer, and says that only a running STD engine has anything there.
5. `BufferManagerIsPageStore`: `Spec => ImplementsPageStore`, with `FlushingEngines`. Every
   step is matched with a step of `PageStore` or leaves its variables alone:
   `DurableInv` makes acknowledged pages uniform on the medium.

The assumptions are needed: `bm_std` refutes durability with STD, an answered write
of ASM is never stored, and with
`short_write` TLC finds it broken by a page of which only a part was written.

**Logging workload** (`LoggingWorkloadProofs`). `LoggedIsDurable`,
`GivesUpOnlyWhenFull` and `WorkloadIsDurableLog`. The second is about both statuses:
with the one that `buffer_manager.cpp:71` returns, no entry is ever counted and the
workload never finishes, for all sizes (`LogsNothing`; `log_coded` is an instance of
it); with the other one it would give up only at an entry that does not fit. That the entries are on the
medium is not inductive: a page that holds the end of one entry is rewritten from
the page buffer with the beginning of the next. `LogInv` therefore says that the
medium holds the log as far as it has come (`MediaHas(At)`), that the page buffer
holds those cells of the log that lie on the page it ends on (`PageHas`), that
`current` is that page and that a page on its way out is that buffer. Empty entries
have an invariant of their own (`EmptyInv`), since with them nothing is ever on its
way but a header. The
refinement assumes `Junk \notin AnyEntry`: an entry that looks like memory nobody has
written could not be told from it by the abstraction.

**Append log** (`AppendLogProofs`). `PoolIsLargeEnough`, by the arithmetic of the
size of the pool; `AppendedIsDurable` and `AppendLogIsDurableLog`, with `NoShortWrites`,
since the short count of a `write(2)` passes for success. `LogInv` says that the
cells of the counted entries lie on the medium from `start`, that the cache holds
them and the entry under way, and that the next write goes right behind
(`WritePosition = start + processed`), whatever was in the directory before.

**Page workloads** (`PageWorkloadsProofs`). `ReadsStayInside`, from `BlockInv`: the
block is as long as asked for whenever no width is exceeded, and any slot behind
any shift lies inside; `ScansAreEven`, from `EvenInv`: the pages before the position
of the scan have been read exactly once more than the rest; `CountsWhatMoved`, for
which the lines that `ASMLoads` names are counted; and `WritesStayInPool`.

**Main program** (`BufmanMainProofs`). `ArgumentsParsed`, from `ParserInv`: between
two steps the parser never stands before the value of an option, and `params` and
`flags` hold what has been passed, all of it and nothing else. `ModesAsGiven` follows from it.
`InitialisedFilesFit` and `ScramblesInside` are arithmetic: the share of a mount, cut
down to pages, is at most the initialised size, which is the full size cut down
to megabytes; and the last block of the scrambling loop lies below the end of the
mapping, and so of every file that was initialised for the size that is asked for;
what happens to a shorter file is not said. Both rest on `UnitsAssumption`, that the units divide each other, as
1 << 30, 1 << 20, 4096 and 64 do.

**Benchmark scripts** (`BenchmarkHarnessProofs`). Five invariants build on each
other.

1. `MeasuredHasItsFiles` and `RowsOfEndedTests`, from `HarnessInv`: `StageInv` ties
   the mode of everything that waits to be started to the phase of `Test.run()`;
   `SuffixInv` says that measured commands have different suffixes, rising in the
   order in which they are started; `OrderInv` that all that runs belongs to the
   present phase, that nothing runs between two tests, and that a forked child has a
   parent that waits for it, unless the parent is an initialization that has failed.
   Both properties say `initResult = "None"`, for the children that such an
   initialization leaves.
2. `TypeCorrect`, from `TypeInv`. Types are not inductive: that a started command
   belongs to the lists of the script (`NewCommand`, `CommandLine`) rests on the
   phase it waits in, and that there are no more rows than tests on the position
   `point`, which lies behind every row.
3. `NothingIsLeft`, from `CleanInv`: a script that cleans up behind each test starts
   the next one without any file. `CleanedUp` is the lemma it rests on: a cleanup
   has removed all files or has ended the script.
4. `RowsFoundPrepared`, from `FilesInv`. `PrepInv` is about scripts in which no call
   has failed: while a file is being prepared, either it is or the command or the
   child that will do it is still there (`Pending`), so when the phase ends, all are.
   `MeasInv` is about the measurement: what is still to be measured, and what has been
   opened, was found as it should be. It cannot be stated for failing scripts, with
   the exception of LINUX logs, which begin each test on missing files whatever
   happened. `RowsClean` is what remains of it in the rows.
5. `RecordsComplete`, from `RowsInv`: the rows are the valid tests before `point`, each
   once, labelled with its own directories and number of threads. The property
   counts rows for each combination and number of threads, so the numbering of
   the tests has to be taken apart: test `n` stands for three nested loops, and
   `QuotientAndRest`, `ThreeLoops`, `LoopPlaces`, `TestHasPlace` and `TestAtPlace` say
   that its two divisions are a bijection with the triples of combination, number of
   threads and run; `RowsOfPoint` turns it into a bijection of the runs with the rows.

They assume `HarnessAssumption`: directories are finite, the lists of directories
and of thread counts hold nothing twice, no list of directories is empty, and the
largest number of threads is one of the thread counts. In the scripts these are
literals, of which this is so.

**TPC-H scripts** (`TPCHDriverProofs`). A command is a program without jumps whose
number of the next step says what has been done. `CommandSteps` gives the lists of
steps of the five commands as tables, for any number of queries, and `StepLines`
the lines on which a kind of step can stand; each invariant is a table of what
holds before a line.

1. `TypeCorrect`, from `TypeInv`: `TodoInv` says which lists `postgres.sh` can be at
   under which line, and `RowsInv` how many rows there are on a line of the
   benchmark, without which the bound of two rows for each query is not inductive.
2. `DirectoriesStay`, from `CalmInv`: unless a stop has failed or was slow, there is one
   server at a time, on its way up only while `postgres.sh` waits for it and never on
   its way down, and none at all when the directory is cleared.
3. `RowsReal`, from `QuietInv`: if nothing has failed, a command that has started a
   server has one from then on, and the database is as far as the line says (`DbInv`).
4. `PreparedServes`, from `SettledInv`: whatever boots slowly or not at all, no server
   lives while `prepare-from-cache` deletes the directory and fills it again, so any
   that lives later has found the copy, and `check_for_recovery` waits for one.

Only model-checked: liveness (`Completes` of `log_durable`, `app_durable`, `wl_pages`
and `bench_tests`, and `ScriptEnds`), which rests on fairness and ENABLED and is out of
the prover's reach; and the refutations, which are about single instances.

## Not modelled, and why

* Log output, seeding of the random engines, `termcolor.h`: no property is about
  them. Random choices are nondeterministic.
* The modes of `argh.h` that `main()` does not use.
* Directory entries: a new file is taken to survive a power failure.
* Hints to the kernel (`fadvise`, `madvise`, `MAP_POPULATE`) and NUMA pinning: they
  change how fast, not what.
* What a benchmark script writes to its result file, and the parameters that only
  change the command lines.
* The `init` commands of the TPC-H scripts, the preparation of containers, the
  generation of tables and queries (`dbgen`), downloads, `VACUUM` and `sync`: they
  run once, one after the other, or change nothing that is looked at. So are some
  failures of the commands between the calls of `postgres.sh`: that `tpch-kit` is not
  there (`fail_if_dbgen_not_setup`, and the `cd tpch-kit/dbgen` of `run_benchmark`, after
  whose failure the script leaves its own directory with `cd ..`), and an `unzip` that
  fails and leaves no data or no queries. The
  PostgreSQL configurations are settings of a third-party program, which is itself
  external here.

## Order of the work, and what remains

The modules were written in the order in which they are described: first the
engines and the buffer manager, whose durability everything else relies on, then
the workloads, the processes and scripts, the main program, and the TPC-H scripts;
each was proved about after it had been model-checked. What remains open is what
holds after failures: the theorems about the scripts on pages say nothing of a row
once any call has failed, and `RowsReal` nothing of the rows of a command that comes
after a failure, though a later preparation may well have repaired what it broke.
