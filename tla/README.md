# A verification project for the OTUS C homework repository

The repository is a collection of small C programs (HW1 ... HW15): kernel
modules, servers, a logging library, a parallel log analyser, a package manager
copied into HW5, and some sequential tools.  This project models the programs
in which several actors meet, or in which a failure in the middle of something
matters, in TLA+; checks them with TLC on small instances; and proves what
matters most of them with TLAPS for every value of the constants.

Everything is translated from the source.  A definition named `X_something` next
to a definition `X` is a way to get `X` wrong; no specification uses one.  They
show that the properties can fail.

## The system

The programs share no code and do not talk to each other.  Each has its own
model.

| Part | State it keeps | Operations | What is hard | Right when |
|---|---|---|---|---|
| HW14 `charmod.c`, data path | `struct ring_buffer`: buffer, size, head, tail, count, lock | read, write, wipe ioctl, `buffer_size` | copies byte by byte that a bad page ends in the middle; signals while waiting; the size changes between two calls | it is an overwrite queue whose calls are atomic |
| HW14 `charmod.c`, life | registrations, `rb`, `device_mutex`, heap | load, open, share, call, close, unload | each step of the load can fail, one of them without being undone; the device can be used before the load is finished; fork | what is registered, locked and allocated stays in step; no call on freed memory |
| HW12 epoll server | `events`, `events_count`, static `buffer`, descriptors | accept, read, answer, close | edge-triggered readiness, clients at any moment, descriptors that run out | nobody gets another client's file; no connection is leaked |
| HW7 logger | the file, stdio's buffer, the mutex | `append_log`, init, close | threads between the `fprintf` calls of one record; a write that fails; `exit()` anywhere | every record is whole, and in the file |
| HW10 log analyser | array of names, worker results, hash tables | count, list, read, merge, report | a live directory, one that cannot be read, workers in any order, int overflow | the report is what the logs say |
| HW5 clib, installing a package | the package's directory, its cache entry, fetch threads and their slots, `refs` | fetch, join, load, save, free | threads that outlive their run, results nobody looks at, a cache that outlives an interruption, files truncated before they are written | what is installed and cached is whole, or the user is told |
| HW5 clib, manifests and dependencies | cached manifests, `lock.mutex`, curl's shared table, `visited_packages` | look up, download, parse, save, recurse into dependencies | retries around a mutex they do not hold, names that stand for several packages, cycles | a package is built from its own manifest; success means everything is there |
| HW5 clib, build and configure | the table of built packages, batches of threads | look up, make, enter, create, join | a table looked up and entered under two holds of a mutex; a loop left early; threads that do not start | dependencies are built once, and by nobody after the end |
| HW8 daemon | `/tmp/otus.lock`, the socket, `file_size`, the log | daemonize, accept, answer, SIGHUP, SIGTERM | several processes on one port; signals inside a log record and inside each other's handler | one process serves, with sizes that are not out of date |
| HW15 sqlite statistics | connection, two statements in one variable, a growing array | type check, select, sums, clean-up by labels | clean-up order, sums in 32 bits | statistics are those of the column |
| HW9 CRC | register, offset of the page | page loop, last page | a result that equals the error value | the CRC of the file |
| HW1 rarjpeg | none | searches from both ends, walk over the directory | short files, markers inside the data | verdict and names are right |
| HW1 converter | none | table look-up, UTF-8 | bytes at the edges of the tables | the text can be read back |
| HW11 figlet client | a buffer | greeting, command, answer | TCP cuts and joins the stream anywhere | what is printed is the answer |
| HW2 weather, HW3 list, HW13 ioctl modules, HW6 GTK tree, HW4, vendored code | - | - | see "Not modelled" | - |

`PROJECT.json` lists every part with its sources, and the hazards at their
lines.

## Modules

| Module | What it is |
|---|---|
| `OverwriteQueue` | abstract: what the ring-buffer device promises its callers |
| `RingBuffer`, `MCRingBuffer` | HW14's data path, one action per step that can be interrupted |
| `RingBufferProofs` | its inductive invariant and safety theorems; `RingBuffer` implements `OverwriteQueue` |
| `CharDevice`, `MCCharDevice`, `CharDeviceProofs` | HW14's load, open, close, unload |
| `EpollServer`, `MCEpollServer`, `EpollServerProofs` | HW12 |
| `Logger`, `MCLogger` | HW7 |
| `LogDistributor`, `MCLogDistributor` | HW10 |
| `PackageInstall`, `MCPackageInstall`, `PackageInstallProofs` | HW5: `clib install` of one package and its cache entry |
| `PackageFetch`, `MCPackageFetch`, `PackageFetchProofs` | HW5: fetching manifests by several threads |
| `PackageResolve` | HW5: the dependencies of `clib install`, `update` and `upgrade` |
| `ClibBuild`, `MCClibBuild`, `ClibBuildProofs` | HW5: `clib build` and `clib configure` |
| `Daemon` | HW8 |
| `SqlStats`, `CrcBlocks`, `Rarjpeg`, `Converter`, `FigletClient` | HW15, HW9, HW1, HW1, HW11 |
| `Programs`, `ProgramsProofs` | one of `Daemon`, `LogDistributor`, `PackageResolve`, `SqlStats`, `FigletClient` and `Logger`, chosen in the initial state; theorems about these six, those that need an induction over data among them |
| `Formats`, `FormatsProofs` | one of these six, or of `CrcBlocks`, `Rarjpeg` and `Converter`; theorems about these three |
| `MCPrograms` | `Formats` with small inputs |

How the clib modules fit: `PackageResolve` walks over packages and treats the
installation of one as a step (`Place`, `Fail`); `PackageInstall` is that step in
detail; `PackageFetch` is how either, and `ClibBuild`'s `Load`, come by a manifest.

### RingBuffer (HW14/charmod.c)

The variables are the fields of `struct ring_buffer`; `op`, `pc`, `arg`, `moved`
and `ret` describe the call a thread is in.  `Acquire` is
`mutex_lock_interruptible` succeeding, `Interrupt` a signal ending the wait.
`ReadByte` and `WriteByte` are one turn of the copy loops, `ReadFault` and
`WriteFault` the early returns on a bad user page, `Wipe`, `Store` and
`StoreNoMemory` the bodies of `rb_ioctl` and `buffer_size_store`.
`buffer_size_show` reads the size without the lock, and so does `CallShow`.
Bytes copied from the caller are chosen when they are copied, because the
caller's memory may change meanwhile.  The abstract queue is what the indices
delimit or, while a handler holds the lock, what they delimited when it took
it: every call takes effect when it returns.

### CharDevice (HW14/charmod.c)

`stage` is the last step of `chardev_init` or `chardev_exit` that was done.  The
registrations are visible to user space as soon as they are made: `RbOpen`
needs `cdev`, `AttrBegin` needs `attr`.  A call on an `rb` that is NULL, not
filled in or freed is undefined behaviour; the model lets it have luck or ends
with `oops`.  `BufferAllocFails` is the path that returns from `chardev_init`
without undoing anything: what this load had registered is `left` in the kernel when
the module's image goes, and a later load fails at `ClassCreate`, where a class of
that name is still there.  `Share` is fork or descriptor passing,
which is what makes `rb_release` run at the last close only.

### EpollServer (HW12)

One round: `EpollWait` takes the descriptors with news, then `Accept`, `Refuse`,
`AcceptFails` and `Handle` consume the events in any order (that of the descriptors'
lists in the kernel).  The kernel's side (backlog, edges, interest list) is modelled
from how the code uses it.  `Handle` is the whole branch of `main()` for a connection:
`do_read`, `set_file`, `send_file`, `epoll_ctl(DEL)`, `close`.  `AcceptFails` is any
error of accept; `answer` notes it, or whose file was sent.  A request is known by its
sender; it arrives whole.  `leaked` counts the files that `send_file` leaves open
after a complete answer.

### Logger (HW7)

A record is a sequence of `fprintf` calls, each atomic by stdio's own lock.  What
they print goes to stdio's buffer (`unwritten`), which is written out whenever stdio
likes: by `Write`, by `Exit` or by `CloseLogger`.  Each such write may fail after a
part of it, and the rest is dropped (`FlushFails`, noted in `lost`).  `Begin` copies
the mutex, as the code does, and `Lock` locks the copy.  `WriteFails` and `Fail` are
the conditions for the `exit()` calls of the library; `Exit` is the call, and until it
the other threads go on.

### LogDistributor (HW10)

`Rotate` changes the directory at any time.  `CountFiles` and `CannotCount` are the
two results of `count_files`; `main()` does not look for the second, -1, and goes on
with an array of that length (`slots`).  `ListFiles` chooses the order of the
directory's entries.  `Exit` is every `exit()` of `main()` and of the workers, which
are running while `main()` starts others or joins.  What is written past the array of
names, what is read from a name that was never stored and what is merged through NULL
is undefined: `main = "undefined"`, or, for the first, the program goes on.  `AsInt`
is the wrap of a C `int` with `IntMax` in place of `INT_MAX`.

### PackageInstall (HW5/clib)

`disk` is `deps/<name>/` and `cache` the package's entry: each file is absent, broken
or whole.  Both outlive the processes; `StartRun` begins a run of `clib install` over
them and `EndProcess` (in `Exit`, `Interrupt` and the two other sudden ends) takes
everything else away, running threads included.  `pc` is the place in
`clib_package_install`, `i`, `fetchs`, `rc` and `next` its variables (`next` is the
list's iterator).  `Join` passes over what the thread returned, because the code gives
`pthread_join` a null pointer.  A copy to or from the cache reads the file, opens and
truncates its copy (`CopyIn`, `CopyOut`), and writes it (`WriteIn`, `WriteOut`);
`half` is the file in between, which an `Interrupt` leaves broken.  Neither opening
nor writing is looked at, and each may fail.  A thread goes through `Check` (under the
mutex, which the cache functions hold), `Open`, `Get`, and then `refs--` as a load and
a store, as `refs++` is in `FetchNext` and `CountRef`: the accesses are not
synchronised, and `raced` notes a lost update.  `Get` has the three results of
`http_get_file_shared`, the truncated file that counts as a success among them.  The
join of the makefile's thread reads and frees an address of that thread's stack:
undefined, either nothing (`FetchMakefile`) or the end of the process
(`AbortOnMakefile`).  `missed` and `spoiled` record what happened and steer nothing.

### PackageFetch (HW5/clib, clib_package_new_from_slug)

A thread is at one of the places between the calls of the function: the look-up
and the reading of the cache under `lock.mutex`, the unlock, the making of curl's
table, the transfer (which takes the same mutex through curl's callbacks), the
parsing, the saving.  A failed request goes back to the label `download`, whose
first act is an unlock: `retried` notes that this has happened.  `inside` is who is
between a lock and its own unlock, `locked` the mutex itself; the two differ after
a retry.  `cache` outlives the runs (`End`), `Expire` ages it.  `Head` is the default
branch, whose manifest names a version that may be another one.

### PackageResolve (HW5/clib, clib_package_install over dependencies)

`frames` is the stack of calls.  `Visit` skips a dependency whose name has been
met, `Place` installs its files and pushes a frame for its dependencies, `Fail` is
every error on that way.  An executable package unpacks into `tmp` and installs its
dependencies there; after its command they are asked for again (`Executed`), and by
then their names have been met.  `ClibInstall`, `ClibUpdate` and `ClibUpgrade` are
the three programs by the options they set; `Exit` and `CommandFails` give their
exit codes.

### ClibBuild (HW5/clib, clib-build.c and clib-configure.c)

The two programs are the same walk; `tool` says which it is.  A call of
`build_package` is named by the way it was reached from `main` (the argument, a
directory or a slug, then dependency after dependency), so that a thread left
behind by a loop that ended early (`Lost`) keeps its place while its parent goes on.
Such a thread reads its directory from a frame that is gone: it may be lucky, or
`Start` ends the process.  A thread that `pthread_create` could not start
(`CreateFails`) takes a slot all the same (`unset`), and the join of that slot
(`Misjoin`) is undefined: it crashes, does nothing, or takes a thread away from the
call that started it.  With `-C 0` the arrays have no slots (`Overrun`).  `MainCall`
takes as many of `nargv` as there are names, although `nargv` holds the options as
well; with options and no name it builds the working directory.

### Daemon (HW8)

Several processes of the program over one lock file, one log and one port.  A
process started by process 1 returns from `daemonize` without lock or handlers
(`byInit`).  `Start`, `SetLock`, `Truncate`, `WritePid`, `Handle` and `SetSocket` are
its set-up; `Accept`, `LogIp`, `UpdateSize`, `Read`, `LogQuery` and `Send` one turn of
the loop, one system call or one `log_message` each.  A signal arrives anywhere.  It
kills (`Kill`), or calls the handler (`Signal`), and finds the System V meaning of
`signal()`: the handler is forgotten as it is called, because the Makefile asks for
plain C11, and nothing is blocked meanwhile.  `running` is the stack of the handlers
that have been called and have not returned, so that a SIGTERM meets the handler of
SIGHUP inside its `log_message`, and the other way round.  `buffered` says which of
the interrupted `log_message` calls have their record in stdio's buffer.  `Hangup` and
`Terminate` are the ends of the handlers' own `log_message`; the `exit()` that follows
(`Exit`) flushes what is buffered behind the "terminate" record.  `Interrupted` is
`accept` or `read` failing with `EINTR`; `LogFails` a log that cannot be written; and
since `log_message` is not reentrant, a handler that interrupted another call of it
may wait for `localtime`'s lock for ever (`Hang`), after which only a signal without a
handler ends the process (`Deaf`, `Kill`).
`waiting` and `served` keep the sizes the file has had since the client connected.

### The sequential programs

`SqlStats` has a stage per label of `main()`, so that what the labels skip is seen;
the largest int is a parameter.  `CrcBlocks` keeps a register as the set of its
one bits and is compared with the division of the whole file by the CRC-32
polynomial, which uses neither table nor pages.  `Rarjpeg` works on the bytes of
files put together from a picture, an archive and a rest; what the archive was made
of is what its verdict and names are compared with.  A name is read into an array
without room for a terminator and printed with `%s`: what is printed goes on into the
memory behind the array (`Beyond`) up to a zero byte (`Printed`).  `Converter` holds
the three tables as the code fills them and is read back by a UTF-8 decoder: the
characters of the text come back in order, no two bytes stand for one character, and
the letters of the Russian alphabet are among them.  In `FigletClient` all that the
server sends is one `Transcript`; a `recv` returns any piece of it that begins where
the last one ended, part of a message or several; `cut` notes that it was not just
one message.

### Programs and MCPrograms

These programs share nothing, and one run checks them all: `which` is chosen in the
initial state, and a step of a program leaves the variables of the others alone.
The states are those of nine separate runs.  Six are composed in `Programs`, and
`Formats` adds the three that turn bytes into something; that the composition is the
specification of each of them is a theorem (`EachByItself`, `NineByThemselves`).
Two states are one to TLC when they agree in what their `View` keeps: the variables of
the chosen program and, of a daemon process that has ended, its signals and its log only.
The size, clients and counters of such a process stand in no guard and in no property,
so that nothing the run checks is lost by it.

## Runs

| Run | Instance and bounds | Shows |
|---|---|---|
| `ring_buffer` | 2 threads, 2 byte values, sizes 1 and 2, counts 0 to 3 | `IndicesAgree`, the refinement `AtomicCalls`, and `CallsReturn` |
| `char_device` | 2 processes, 2 files, 2 unloads, 4 buffers | `SingleOpen`, `RolledBack`, `NeverBackAfterGivingUp`, `OneLeakPerUnload`, `FaultsOnlyWhileLoading` |
| `epoll_server` | 2 clients, 3 descriptors | `CountMatches`, `NoStaleEvent`, `PromptClientsAnswered`, `EveryoneDismissed`, `EdgeServesOldest` |
| `epoll_own_request` | as above | violation: `AnswersOwnRequest` |
| `logger` | 2 threads, 1 record each, 1 frame | `ProgramEnds` |
| `logger_records` | the same with 2 records each | violation: `RecordsWhole` |
| `log_distributor_files` | 2 logs, 2 lines each, `-n` from -1 to 2, 4-bit int, 1 change of the directory | violation: `EveryLogRead` |
| `package_install` | 3 sources, concurrency 1, a makefile, 2 runs over one disk | `OnlyBatchLastsEscape`, `FreedWhenUnused`, `IncompleteExplained`, `WholeFilesStay` |
| `package_install_failures` | the same without a makefile | violation: `FailedInstallReported` |
| `package_fetch` | 2 threads, 1 retry, 2 versions, 2 runs over one cache | `AloneUnlessRetried`, `ManifestOfSlug`, `EveryFetchEnds` |
| `clib_build` | 4 packages in 5 shapes, concurrency 2 or 0, one or two names, an option before them or alone, one failing `pthread_create` | `EverythingBuilt`, `MadeTwiceOnlyIfShared`, `CutOnlyIf`, `RunEnds` |
| `programs`: daemon | 2 processes, 2 answers each, a size or none | `OneServes`, `AnswersCurrent`, `TerminateEndsLog` |
| ... log analyser | as `log_distributor_files`, int of 5 bits | `BytesExact`, `ReferersExact`, `UndefinedOnlyIf` |
| ... dependencies | 4 packages, two of one name, 4 graphs, every option, calls 6 deep | `CyclesEnd`, `SuccessInstalls` |
| ... column statistics | columns of up to 3 rows and one of 5, int of 5 bits | `StatisticsExact`, `FirstStatementLeft` |
| ... CRC | all files of one byte and others of up to 9, pages of 4 bytes | `CrcExact` |
| ... rarjpeg | 9 beginnings, archives of up to 2 files, 3 comments, with and without bytes behind a name | `VerdictRight` |
| ... converter | 3 code pages and a name that is none, texts of up to 2 of 8 bytes | `Readable` |
| ... figlet client | a buffer of 8 tokens, 4 messages | `AnswerUnlessCut` |
| ... logging library | 2 threads, 2 records each, no frames | `NothingLost` |

Why these bounds are enough to be interesting: a count of three exceeds the
largest buffer, so that a write evicts its own first byte and a read empties the
buffer; size 1 makes every index wrap at each step.  Two unloads and four
buffers leave one buffer for a change of size after two leaks.  Three
descriptors are used up by a leaked file, a connection and the file it is sent.  Two
records of two threads interleave in every way they can, and with the places at which
stdio's buffer is written out or a write of it fails; for the mutex, which each call
has to itself, one record of each is enough.  A line of the logs is
worth more than half of the largest int, so that two of them overflow, in one log
(where the merge drops the sum) or in two (where the total wraps).  With two
logs and up to two threads the array of names is too short, right, too long, or of a
negative length.
With concurrency 1 a batch of an install has two slots, so that of three sources
the second escapes its batch while the third goes into a slot used before; the
second run finds whatever the first left on the disk and in the cache.

One retry is enough for a thread to unlock the mutex another one holds, and the thread
that had its mutex taken away may be at any place.  The shapes of `clib_build` are a
diamond, a package with three dependencies (a full batch and a partial one), a cycle,
and two in which a manifest is lost with threads still running.  One thread that does
not start leaves a slot unset in a full batch or a partial one, and another call's
thread to be joined through it.  Two processes of the daemon race for the lock, or run
without it.  The graphs of dependencies have a cycle, a diamond, two versions of one
name and a chain that meets itself; six calls are two more than there are names, and a
deeper stack, which only `--force` and updates reach, adds nothing new.  Five bits
make the sum of two large values leave an int, and the value 17 does not fit.  One of
the files for the CRC leaves a register of all ones behind its first page.  The echo,
the phrase and the answer do not fit the buffer of the figlet client together, the
echo and the answer do; and a joined piece can fill it, so that the byte written
behind it is past its end.

Where a run says `CHECK_DEADLOCK FALSE` the program really may stop: the kernel
has faulted, the process has ended, or every descriptor is leaked and every
client is gone.

### Fairness

- `RingBuffer`: weak fairness of a thread's steps inside the driver (it is a
  runnable kernel thread, and nothing in the loops waits) and strong fairness of
  `Acquire` (a kernel mutex is handed to a waiter that keeps waiting).  Nobody is
  made to call anything, and faults and signals are never forced.
- `EpollServer`: weak fairness of the server's loop as a whole; it waits only in
  `epoll_wait`.  Clients owe nothing.
- `Logger`: weak fairness of each thread, of `init_logger` and of `close_logger`.
- `PackageFetch`: weak fairness of each thread's steps.  Which answer the network
  gives is free; an attempt is counted, and so a fetch ends even if all fail.  The
  mutex needs no more: with no thread calling again until the run ends, a waiter
  finds it free in the end.
- `ClibBuild`: weak fairness of the program as a whole.  No thread waits for
  another but in `pthread_join`, and a step that stays possible is taken.  The join of
  a slot that was never filled may wait for a thread that waits for it in turn, and so
  `RunEnds` asks only of the runs in which every thread starts that they end.

### What the code does otherwise than it says

- `epoll_own_request`.  A connection is writable as soon as it is accepted.  If its
  request is not there yet, `set_file` takes the path from the request an earlier
  client left in the static buffer.  `PromptClientsAnswered` is the part that holds:
  whose request had arrived at accept time is served correctly.
- `logger_records`.  `append_log` locks a copy of the mutex, which excludes nobody,
  and records are mixed.  `NothingLost` is the part that holds.
- `log_distributor_files`.  Logs are left out when `-n` is below their number, or
  when `readdir()` does not give `.` and `..` first.
- `package_install_failures`.  A failed fetch does not fail the install, and neither
  does a failing configure or install command: the exit code is 0.
  `IncompleteExplained` is the part that holds: a file that is not whole after a
  success was spoiled by a failed or cut fetch, now or earlier, or by a copy to or
  from the cache that was interrupted or could not be written.
  `OnlyBatchLastsEscape` tells which threads the joins forget.

## Proofs

| Theorem | Module | Says |
|---|---|---|
| `TypeCorrect`, `IndicesAlwaysAgree`, `MutualExclusion`, `ReadsAreExact`, `WritesAreExact` | `RingBufferProofs` | safety of the ring buffer, for any threads, bytes and sizes |
| `ImplementsQueue` | `RingBufferProofs` | `Spec => Queue!Spec` under the refinement mapping |
| `OpenedOnce`, `Unregistered`, `GivenUpForGood`, `LoadedIsSafe`, `LeaksCounted` | `CharDeviceProofs` | the properties of run `char_device`, for any processes, files, buffers and unloads |
| `Counted`, `EventsAreFresh`, `PromptClientsServed`, `NeverMany` | `EpollServerProofs` | the safety properties of run `epoll_server`, and that at most two connections are open |
| `AloneAtFirst`, `ManifestsMatch` | `PackageFetchProofs` | the safety properties of run `package_fetch`, for any threads and retries |
| `OnlyBatchLastsEscapes`, `NoUseAfterFree`, `EveryGapExplained`, `WholeFilesAreKept` | `PackageInstallProofs` | the four properties of run `package_install`, for any number of sources and runs and any concurrency |
| `NothingElseCuts`, `AllIsBuilt`, `MadeOnce` | `ClibBuildProofs` | the safety properties of run `clib_build`, for any graph, concurrency, command line and number of threads that do not start |
| `EachByItself` | `ProgramsProofs` | the composition of `Programs` implements each of its six specifications |
| `OneServer`, `AnswersAreCurrent`, `TerminateIsTheEnd` | `ProgramsProofs` | the daemon's properties, for any processes, sizes and signals |
| `NoNameTwice`, `SuccessIsComplete` | `ProgramsProofs` | `CyclesEnd` and `SuccessInstalls`, for any packages, names and dependencies |
| `OneStatementLeft` | `ProgramsProofs` | `FirstStatementLeft`, for any columns and any largest int |
| `OnlyFourReasons` | `ProgramsProofs` | `UndefinedOnlyIf`, for any logs, threads and changes of the directory |
| `WholeAnswer` | `ProgramsProofs` | `AnswerUnlessCut`, for any pieces recv returns and any buffer that the answer does not fill |
| `RecordsComplete` | `ProgramsProofs` | `NothingLost`, for any threads, records and frames, and wherever the buffer is written out |
| `StatisticsRight` | `ProgramsProofs` | `StatisticsExact`, for any columns and any largest int |
| `BytesAreExact`, `ReferersAreExact` | `ProgramsProofs` | `BytesExact` and `ReferersExact`, for any logs, lines, threads and largest int |
| `NineByThemselves` | `FormatsProofs` | the composition of `Formats` implements each of its nine specifications |
| `CrcIsExact` | `FormatsProofs` | `CrcExact`, for any files and any size of a page |
| `VerdictIsRight` | `FormatsProofs` | `VerdictRight`, for any pictures, archives and rests, and whatever lies behind a name in memory |
| `TextIsReadable` | `FormatsProofs` | `Readable`, for any text in any of the three code pages |

The assumptions are the named ASSUMEs of the modules: that the constants that mean
"nobody" or "nothing" are not among the threads, clients or buffers, that sizes are
natural numbers with the default size within the largest, that the server's sets are
finite and `MaxEvents` is at least 2, that the largest int is a natural number, that a
line's size is an int and not negative (`parse_line` reads digits), that a column is a
sequence of cells with a type and an integer.  `BuildAssumption` says what
`ClibBuild`'s inputs are: a finite set of packages with that of the working directory
among them, graphs over these packages, a `--concurrency` that is a natural number (0
too), and arguments that are packages or options.  `FigletAssumption` says that the
server's answer is shorter than the client's buffer: nothing in the client makes it
so, but an answer to the one word it sends is far from 16384 bytes, and one that fills
the buffer makes `main()` write behind it without any cut.  `CrcBlocksAssumption`,
`RarjpegAssumption` and `ConverterAssumption` say that files and texts are sequences
of bytes and a page is not empty, and what an archive with names in it is (`Zip`): it
begins with a local header; it has an end record behind which there is no other; and
the number and the place of its entries are what this record says, and the length of
each is what the entry says.  The modules that `Programs` and `MCPrograms` instantiate
state theirs as operators (`LogDistributorAssumption` and the like), which
`ProgramsAssumption` and `FormatsAssumption` conjoin, so that TLC evaluates them in
the composition.

*Ring buffer.*  `IndicesAgree` alone is not inductive: a `ReadByte` with `count`
= 0 would break it.  The invariant adds that a read in progress has
`before = moved \o Contents` and `to_read <= Len(before)`, so that there is a
byte whenever the loop goes on; that a slot between tail and head holds a byte
(so what is read is never `Unset`); and that the thread in the critical section
is the holder of the lock.  `ImplementsQueue` uses it to map each return to
one step of the queue and every other step to a stutter: the content of the
sequences, `Drop` and `LastN` is treated in lemmas of their own.

*Character device.*  The invariant ties `stage` to what is registered and to
`rb`, ties `device_mutex` to the files that are open and not orphaned, says
which buffers of the heap were leaked, and that a load which gave up for the buffer
has left the region, the cdev, the class and the device behind, so that every later
load ends before its device (`Gone`).

*Epoll server.*  The core of the invariant is `Rounds`: a connection that is open
either waits for the event its accept has raised, or has its event in the batch,
and in each round only one connection can be accepted.  From this follow that at
most two connections are ever open, that the limit of events never refuses one,
and that an event is never stale.

*Logger.*  As long as no write has failed, the parts of a thread in the file followed
by those in stdio's buffer are what its calls ask for laid end to end, the last record
only as far as the thread has come (`Kept`, with `Due` for what is asked).  A write of
another thread leaves the selection of one's own parts alone, and writing the buffer
out moves parts from one to the other in order: that is all the mutex would have had to
add, and why nothing is lost without it.  Once a write has failed, some thread stands
before `exit()` (`Noticed`), so that `main()` never comes to close the file.

*Fetching manifests.*  `Attempts` ties the retries left to the place of a thread
(while all are left, its unlock is its own); `Holder` says at which places a thread
is inside; `Excluded` that, before the first retry, somebody inside means a locked
mutex and nobody else inside.  `CacheRight` says what can be cached under a
version, and `JsonRight` that the text a thread holds came from there or from the
version it asked for; `ManifestOfSlug` is what they leave of the parsed package.

*Installing a package.*  Three parts that need little of one another.  `Slots`: the
slot of the next thread is what a division of its source by `Concurrency + 1` leaves,
and every thread created and not joined, but for those that filled the last slot of a
batch, is in one of the slots the joins are still to visit; this is the arithmetic of
`i` and `fetchs` for any concurrency, and needs lemmas about the remainder of a next
number.  `RefsCover`: while no update was lost, `refs` is at least the number of
threads that have still to give theirs back, so that whoever finds nobody left frees
alone.  `DiskExplained` and `CacheExplained`: every file that is broken or absent,
here and in the entry, has a cause noted in `spoiled`, is being fetched, is the one
just truncated, or is still to be copied; `HalfExplained` says the same of what a
half-made copy has in its hands.  An interruption ends a run in the middle and must
leave both true, which is why the entry has a part of its own.

*Building.*  `CutOnlyIf` rests on the shape of the calls (`Tree`): as long as no
manifest is lost and every thread has started (`Calm`), no slot is unset (`Sound`),
every call is under the one root, each a child that its parent has still to join
(`Rooted`), only a call in its loop has children (`Quiet`), and a dependency still on
the list has no thread yet (`Fresh`).  So no frame is left before its threads, and the
root that returns leaves none.  `EverythingBuilt` adds `Owed`: each dependency of a
package in the table is in the table itself, has no manifest in the directory, or is
owed by a call that lists it or has been created for it and will not give up; when no
call is left, nothing is owed.  An argument that is an option takes the place of a
name in `main`'s loop, hence the premise `Orderly`. `MadeTwiceOnlyIfShared` adds
`Single`: where no package is a dependency of two, at most one call is between its
look-up and its entry for each package (`OneAtIt`), and a package that make has run
for is in the table or with this one call (`MadeIsEntered`).  What keeps two calls
apart is that a listing call is the only one of its package (`OneListing`), which in
turn needs the table.

*Daemon.*  The invariant is the types, the stack of handlers (`HandlersOK`: each
signal at most once) and, for each process by itself, three parts.  `Owner`: between `set_lock` and its end a
process that forked is the holder of the lock, and from `write pid` on the file names
it; since there is one holder, two such processes are one.  `Current`: what
`update_size` stored is one of the sizes since the connection, which only grow.
`Silent`: after its "terminate" record the SIGTERM handler is on the stack until the
process has ended, and the records written since and those still buffered together are
at most two, or one if SIGHUP never came.  The interleaving with other processes needs
nothing more, because no action of a process changes another's part.

*Dependencies.*  The stack is a sequence of frames, all names above the first are
different, and they have all been entered in `visited_packages` (`Distinct`), unless
`--force` is given: `Place` can then not push a name that is on the stack.  The
steps that replace the top frame keep its package.  For `SuccessInstalls` the
invariant is that, as long as nothing failed, each name that is needed is in place
or on the list of some frame (`Pending`), and that a name in `visited_packages` is in
place: this is what lets `Visit` skip it.  The development packages are listed by the
frame of the package the user named, and are pending from then on (`DevelopmentDue`).

*Induction.*  The library states induction for an operator, which cannot be given to
it here.  `ProgramsProofs` takes the set of the numbers for which a fact holds instead,
and the smallest number outside it (`WFMin` for the order of the natural numbers):
`Induction`, `UpTo` and, for finite sets, `AddsUp` follow.  What a fold of the
community modules is, step by step, comes from their definitions the same way.

*Column statistics.*  For `FirstStatementLeft` the invariant gives for each label of
`main()` which of the two statements is prepared.  For `StatisticsExact` it says that
the array holds the values of the rows so far (`Copied`) and that what was printed was
computed from the array (`Printed`).  That the variance is right needs that the sum
of squares, by as many values, is no less than the square of the sum
(`SpreadOfAll`), so that a difference of two numbers that fit fits as well.

*Log analyser.*  While the directory has not changed since it was counted, and it
could be counted, the array is as long as the list of names, and none of its places is
garbage: that is `UndefinedOnlyIf`.  For the report, `LogsData` says that no two
workers read one log (`Apart`), that a worker's tables are the sums over the lines it
has read while these are ints (`CachesRight`), and that the totals are the sums over
the tables merged, modulo the width of an int (`TotalsRight`), whichever order
`merge()` takes the keys in.  The sum of a table is then the sum over all urls, since
a key the table lacks adds nothing.  Both properties have the limit of one log as
their premise: past it `inc()` stores a negative sum, which `merge()` drops.

*Figlet client.*  Whatever recv returns is a piece of the `Transcript` that begins
behind the last one, and lies at the beginning of the buffer (`RecvFacts`).  The
invariant says how much was received at each step of `main()` if nothing was cut; this
rests on the greeting being used up first, since as long as its second half is missing
the phrase cannot be in the buffer (`Unmet`).  What is printed is a piece of that piece.

*CRC.*  Of the table, two facts are evaluated: each word follows by one step from the
word at twice its index (`WordHalf`), and a word at an odd index differs from its
neighbour by the first one (`WordOdd`).  Eight steps of the division behave the same
way (`EightBit`, `EightXor`), so that the entry for the register's
lowest byte is what eight steps make of that byte alone (`EntryOf`).  The two loops over
bytes are then one fold, which pages cut anywhere continue (`RemainderMore`), and the
register before each page is the remainder of the pages so far (`Reached`).

*Rarjpeg.*  What a search finds in the archive it finds, moved by the length of the
picture, in the file (`HasBehind`, `NumberBehind`), so that the end record is the
archive's (`EocdFacts`), the names are read from its entries (`NamesBehind`), and the
first end marker of a plain picture is its last (`PlainEnd`).  A printed line begins
with its name whatever follows it in memory (`PrintedShows`).

*Converter.*  Each byte becomes one to three bytes that a decoder reads as one code
point (`EncodedFacts`), and what is written is the code points of the text laid end to
end (`Laid`), so that a decoder that starts at the beginning meets every boundary
(`LaidRead`).  The three tables are evaluated for what is needed of them: 128 different
code points of at most three bytes, with the Russian letters among them.

## Only model-checked

- Liveness under fairness (`CallsReturn`, `EveryoneDismissed`, `EdgeServesOldest`,
  `ProgramEnds`, `EveryFetchEnds`, `RunEnds`) is out of the prover's reach.
- What the four violations show: each is one run of the program.

## Not modelled

Of the modelled parts: formatting and messages; option parsing and socket set-up of
HW12 and HW11; the size of a file and partial sends in HW12 (the model tells whose
file was answered); the text of a date in HW7; `get_top` and the parser's walk over
malformed lines in HW10; the file offset, which HW14 updates and never reads; the
client programs of HW14; the names in the configuration files of HW8 and HW15.  In
clib: two sources of a package with the same base name, writes of a download that fail
because the disk is full, `--save` and the other edits of the user's manifest, the
cache of search results; in `PackageResolve`, a regular file or `.` as an argument; in
`ClibBuild`, what follows `--` and a regular file as an argument.

Of the system: HW2 (one request, one reply, one table printed; `cJSON.c` is third
party), HW3 (a list built and filtered once, without input), HW6 (a listing drawn
by GTK), the ioctl module of HW13 (one integer without a lock, and a registration
that is `CharDevice`'s with fewer steps), its debugging exercise (a module that
crashes on purpose), `clib.c`, `clib-init` and `clib-search` (they start a program,
ask questions, print), HW4 (build artefacts) and the vendored libraries.

## Plan

1. An abstract specification of a package's installation, which `PackageInstall`
   implements and `PackageResolve` uses.
2. Partial sends in `EpollServer`; the cached search results.
