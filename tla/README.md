# TLA+ models of pydev

pydev is a collection of small system tools, most of them written twice (a C program and a
Python one "with the same purpose and safety model"), and a toolkit, `pydev_ai`, that offers
read-only reports about a host over a command line and over the Model Context Protocol. This
directory holds TLA+ modules of the parts whose correctness depends on what happens *between* two
of their steps, TLC configurations that check them on small instances, and proofs, checked by
TLAPS, of what holds for instances of any size.

| module | models | checked by | proved in |
|---|---|---|---|
| `AtomicInstall` | what an update of the signature database promises its readers (abstract) | `AvUpdate.cfg`, as a property | `AvUpdateProofs` |
| `AvUpdate` | the updaters `c/av_update.c` and `antivermis.py` | `AvUpdate.cfg` (with `MCAvUpdate`) | `AvUpdateProofs` |
| `PqRun` | the bounded runner of OpenSSL, `c/pqcommon.c` and `pqcommon.py` | `PqKey.cfg` | `PqProofs` |
| `PqKey` | the key generator and the certificate checker that use it | `PqKey.cfg` | `PqProofs` |
| `Traceflow` | the trace loop of `c/traceflow.c` | `Traceflow.cfg`, `TraceflowEscape.cfg` | `TraceflowProofs` |
| `ProcessSample` | `pydev_ai/processes.py` and `list_processes` | `ProcessSample.cfg`, `ProcessSampleRow.cfg` | `ProcessProofs` |
| `AvScan` | the walk of the C scanner, `c/antivermis.c` | `PathWalk.cfg`, `AvScanExit.cfg` (with `MCAvScan`) | `WalkProofs` |
| `PathWalk` | the walks of `antivermis.py`, `lsx`, `linkscan` and their Python twins, over the tree of `AvScan` | `PathWalk.cfg` (with `MCPathWalk`) | `WalkProofs` |
| `Monitor` | the system monitors `c/syswatch.c` and `syswatch.py` with `pydev_ai/metrics.py` | `Monitor.cfg` | `ServiceProofs` |
| `McpServer` | `pydev_ai/mcp_server.py` and the workflows it runs | `McpServer.cfg` (with `MCMcpServer`) | `ServiceProofs` |
| `SessionX` | the walk over a user's processes of `c/sessionx.c` and `sessionx.py` | `SessionX.cfg` | `ProcessProofs` |
| `BoundedRead` | how files are read: `c/common.c`, the database readers of `c/antivermis.c` and `c/av_update.c`, `scan_file`, `pycommon.py`, `_bounded_hash` of `collectors.py` | `ReadJson.cfg` | `BoundedReadProofs` |
| `FileHash` | what SHA-256 (`c/av_sha256.c`) and `inspect_text` make of the pieces that are read | `ReadJson.cfg` | `BoundedReadProofs` |
| `SigDb` | the parsers of signature databases, and the look-up of a hash, in both languages | `ReadJson.cfg` | `BoundedReadProofs` |
| `JsonFormat` | the validator and the formatter of `c/jsonfmt.c` | `ReadJson.cfg` | `BoundedReadProofs` (the validator) |
| `JsonGrammar` | what a JSON text is (reference definition) | `ReadJson.cfg` | `BoundedReadProofs` |
| `ReadJson` | the viewers `readjson` and `rdr2dot0`, composed of the readers, the formatter and the grammar | `ReadJson.cfg` (with `MCReadJson`) | `BoundedReadProofs` |
| `Summation` | what the values of a function on a finite set add up to (used by `Monitor` and `PathWalk`) | with these | `SummationProofs` |

A definition whose comment begins with "Mutant of" is a plausible bug: put in the place of the
definition it names, it must make TLC report a violation. `PROJECT.json` lists the runs, the
mutants, the lines of source each definition stands for, the hazards and the findings.

## 1. Inventory

### What is modelled

**Signature updater** (`c/av_update.c`, `antivermis.py` 128-205, the validator of
`c/antivermis.c`). *State:* the destination file, one temporary file beside it, a digest and a
download in memory. *Operations:* fetch a manifest, compare the destination with it, fetch the
database, compare its digest, inspect the destination, write a temporary file, sync it, validate
it, rename it over the destination; unlink it on failure. *Talks to:* an HTTPS publisher,
which changes manifest and database one at a time; the file system; scanners, which read the
destination at any time; other updaters. *Hard:* crashes and power losses at every step, short
writes, two updaters of different languages at once, a publication in the middle of a fetch.
*Correct when:* the destination only ever goes from one whole, durable, approved and parsed
database to another; a temporary file is unlinked or that of a run which was killed or could not
unlink or close it; what is printed is true.

**OpenSSL runner** (`c/pqcommon.c`, `pqcommon.py`; called by the key generator and the
certificate checker). *State:* a child in its own process group, a pipe, a budget, a deadline.
*Operations:* fork, read, poll, waitpid, kill the group, collect. *Talks to:* the child and the
processes the child starts, by pipe and signal. *Hard:* the child's exit races its output, a
descendant keeps the pipe open, the PID is given away once it is collected. *Correct when:* a
success has all the output, a failure has a cause, nothing is left behind, no stranger is
signalled, and it always returns.

**Key generator and certificate checker** (`c/pqkey.c`, `c/pqcheck.c`, `pqkey.py`, `pqcheck.py`).
*State:* a new directory with two files in it, the stage of the program. *Operations:* create the
directory, run OpenSSL, create a file exclusively, write it, open it again by its name, run OpenSSL
on it, save what that prints. *Talks to:* the runner, the file system. *Hard:* a run that fails
after it has printed half a key; other processes of the owner that put files under the two names.
*Correct when:* nothing of somebody else's is written over, and a pair that is said to be created
is whole.

**System-call tracer** (`c/traceflow.c`). *State:* a bounded table of tracees, for each whether
it is inside a system call. *Operations:* one answer for each report of `waitpid`. *Talks to:*
tracees, through ptrace. *Hard:* the reports of different tasks come in any order, and tasks are
killed from outside. *Correct when:* each stop is answered, the toggle of entry and exit is in
step with the task, no tracee escapes, the status is that of the command.

**Process collector** (`pydev_ai/processes.py`, `collectors.py` 61-76). *State:* two passes over
`/proc`, rates, rows. *Hard:* processes end and PIDs are reused between any two reads.
*Correct when:* no rate or row mixes two processes, and whatever is left out is counted.

**File scanners** (`c/antivermis.c`, `antivermis.py`). *State:* a stack of open directories or of
paths, counters, limits; a hash and the end of the last piece of a file. *Operations:* fstatat,
openat, fstat, read, readdir; in Python lstat, open and scandir by path; hash a piece, look for
indicators in it. *Hard:* the tree changes while it is walked;
limits are met half-way. *Correct when:* the limits hold, nothing is read that was not inspected,
and an exit status of 0 or 1 means complete coverage; what is found does not depend on how the
reads cut a file.

**Signature databases** (`c/antivermis.c` 87-247, `antivermis.py`, `c/av_update.c` 163-195). *State:* a
table of hashes, sizes and labels. *Operations:* read a whole file or nothing, parse it by the
line, sort it, look a hash up. *Hard:* two parsers written apart. *Correct when:* a database as
README.md describes it is loaded by both and gives one label for each file.

**Listings and link searches** (`c/lsx.c`, `lsx.py`, `c/linkscan.c`, `linkscan.py`; behind
`get_directory_usage` and `find_hardlinks`). *State:* a walk, a size, a star for a size that is
short. *Hard:* as for the scanners, and a failure deep below a row must show in the row.
*Correct when:* a size without a star is whole, and what is left out shows in the exit status.

**System monitors** (`c/syswatch.c`, `syswatch.py`, `pydev_ai/metrics.py`). *State:* two samples of
the kernel's counters, an iteration, a log with a buffer before it. *Operations:* read `/proc/stat`
and the devices, subtract, report, append a line. *Talks to:* the kernel, another monitor on the
same log. *Hard:* counters go back, devices come and go between two samples, a read fails half-way,
or fails and nobody notices.
*Correct when:* no report says more than was transferred, what is missing has a reason, the exit
status tells how the loop was left, the log has a line for each report.

**MCP server** (`pydev_ai/mcp_server.py`, `workflows.py`, `contract.py`). *State:* four permits,
one status for each call. *Operations:* take a permit or give up after a second, run, bound the
response, release. *Hard:* collectors hang, raise and answer too much, in threads. *Correct when:*
permits are conserved, an answer is true of the reports it was made from, nobody waits forever.

**Bounded readers and JSON viewers** (`c/common.c`, `c/jsonfmt.c`, `c/readjson.c`,
`c/rdr2dot0.c`, `pycommon.py`). *State:* a buffer that grows to a limit; a position and a depth in
a text. *Operations:* open and inspect, read, grow, look for one byte more, compare with the first
look; validate, measure, print. *Talks to:* the file system, stdout. *Hard:* files that grow or
shrink while they are read, sizes exactly at a limit, short reads; a formatter that trusts the
validator. *Correct when:* buffers keep their bounds, an unchanged file is read whole, only JSON is
printed, and printing changes nothing but white space, and loses nothing unless stdout fails.

**Session tool** (`c/sessionx.c`, `sessionx.py`). *State:* a position in `/proc`, the processes
found, a count. *Operations:* list, look at the owner, look again, signal. *Talks to:* every
process of the host. *Hard:* processes end, change their owner and give up their PIDs between two
steps; permission is refused, or a look fails, half-way. *Correct when:* only the user's processes
are signalled, the tool spares what it should, and a status of 0 means that nothing was left out but
what a failed call hid.

### What is not, or not yet

| component | state and operations | why not |
|---|---|---|
| rest of the collectors (`pydev_ai/collectors.py`) | `inspect_process`, `list_startup_entries`: one process, and a bounded walk over fixed directories | planned; their reads are those of `ProcessSample` and `BoundedRead` |
| filesystem policy (`pydev_ai/policy.py`) | resolve a path, compare it with the roots, redact secrets | planned with `list_startup_entries`; redaction is regular expressions |
| response contract (`pydev_ai/contract.py`) | turns problems into a status | in `McpServer` and `ProcessSample`, as what it makes of a status; the schema is data |
| telemetry (`pydev_ai/telemetry.py`) | one bounded request to a local endpoint | the service is external; its endpoint rules and limits are planned |
| `scan_system` and the table of rules of the C scanner | the same walk for fixed roots; constants | the walk is `AvScan`'s, with one root |
| compression of SHA-256 (`c/av_sha256.c` 15-57) | 32-bit words | bit arithmetic with published test vectors |
| process explorer (`procexp`) | one pass over `/proc`, sorting, printing | its hazards are those of `ProcessSample` |
| system information (`syscallx`, `autostartx`, `coreinfo`, `clockres`) | tables and files that are printed | nothing that changes state |
| quantum simulator | floating-point amplitudes | TLC has no reals |
| network lookups, HTML parser | one request, one bounded answer | external |
| file writer, package runner, contacts | open one file, start one program, one SQL statement for each choice | no step that another actor's could come between but what the library handles |
| games, converters, command line | one loop, or argument parsing | sequential; `codebreaker` and `randpass` are planned as pure algorithms |
| build, tests, documentation | | read for what they promise |

### How the parts meet

The command-line programs share no memory; they meet in the file system and in the process
table. The updater writes what the scanner loads: `AvUpdate` has the validator run by the updater
and any reader of the destination as the observer of `DestinationSound`; its `AcceptedC` and
`AcceptedPy`, the databases either parser accepts, are what `SigDb` spells out as `CLoads` and
`PyLoads`. The MCP server calls the collectors and workflows in threads: `McpServer` has a
collector as a step that ends in some status, and `ProcessSample` says which status one of them
gives. `pqkey` and `pqcheck` call the runner: `PqKey` extends `PqRun`, starts it anew for each run
and acts on its result. `PathWalk` puts the other programs that walk a tree on the tree of
`AvScan`, with the same changes made by others. Nearly all small tools read their input by one of the
readers of `BoundedRead`; composed with it are the JSON viewers (`ReadJson`), the parsers of
databases (`SigDb`) and the hash and the search for indicators (`FileHash`), which take each piece
as it is read.

## 2. The modules

### AtomicInstall and AvUpdate

Each updater is a program counter over the steps of `av_update_database` (`manifest`, `current`,
`fetch`, `verify`, `inspect`, `create`, `write`, `sync`, `close`, `validate`, `rename`); `After` gives the order of
the steps, which differs between C and Python. A process writes a *prefix* of a database, each
write may be short, and a file is in the page cache until `Sync`. Each call that may fail goes to
`Discard`, the unlink on the error path, which may fail in turn, or, before there is a temporary
file, to an error return. Python's `finally` clause closes the descriptor before it unlinks
(`antivermis.py:195`), and an exception there leaves the clause: `CloseFails` abandons the file. When
it was `os.close` that failed in the first place, the variable still holds the number, the second
close fails with it, and the file is left for sure: `FailLate` has no way out for Python at `close`.
The environment publishes (`PublishManifest` and `PublishDatabase` are two steps, as two URLs
change one at a time), kills updaters, cuts the power, and changes the destination.

*A power loss* truncates any file that is not synced to any length, and may bring the destination
back to any entry it has had since the last restart, because neither program syncs the directory.

*Properties.* `DestinationSound`: whoever opens the destination, now or after a power loss, finds
a whole database some manifest approved and a parser accepted, or what was there before.
`TempsAccounted`: each temporary file has one running owner or was left by a killed run, by an
unlink that failed or, in Python, by a close that failed; C, which ignores the result of that
close, leaves none for it. `ReportTruthful`: "updated" or "current" names a database that was whole at
the destination. `InstallsAtomically`: the refinement of `AtomicInstall`, in which an install is
a single step.

*Bounds.* One C and one Python updater, a database at the start, two published ones, of which one
has a prefix that parses too (so that the parser alone keeps no torn file out) and the other is
accepted by only one of the two parsers, two temporary names
(interchangeable: the symmetry is sound because no property names one), two events of the
environment (`Events`). Two events reach a crash followed by a power loss, or a publication
between the fetch of the manifest and that of the database followed by a crash. More updaters and
events are for the proofs.

*Assumed.* Equal digests mean equal bytes. The random names of `mkstemp` do not come back. Nobody
edits the destination in place. There is no liveness property: a transfer or a validation may take
for ever, and nothing retries.

### PqRun

One runner, C or Python (`runner`), one child that leads its own group, one descendant that may
leave it, a pipe of `PipeCap` units, and a stranger who may get the child's PID once it is reaped
and its group is empty. The steps of the C loop are `Check` (clock), `Read`/`ReadEof`/
`NothingToRead` (poll and read), `Collect`/`NotExited` (waitpid), `Kill` and `WaitChild` (the
cleanup). `IOFails` stands for any failing call, and for Ctrl-C in Python.

*Properties.* `NeverSignalsStranger` (of the C program), `SuccessIsComplete`,
`FailureHasCause`, `NothingLeftBehind`: of every run that the programs of `PqKey` make.

*Bounds.* A budget of 2, an output of up to 4 and a pipe of 2, so that output below, at and above
the budget occurs, and a writer blocks. *Assumed.* `SIGCHLD` is not ignored.

### PqKey

`stage` is where `pqkey` or `pqcheck` is; while it is at a run (`gen`, `pub`, `list`), the steps are
those of `PqRun`, and the result of the run is what the next stage acts on. `files` says what the
names `private.pem` and `public.pem` hold: nothing, a part, the whole, or somebody else's file.
`Create` opens exclusively, `WriteFile` may stop anywhere, `Reopen` finds whatever has the name by then.
Another process of the owner may put a file under either name, or remove one, at any moment.

*Properties.* The runner's, over all runs. `NeverOverwrites`: what others put there stays as it is.
`KeyPairWhole`: a pair that is said to be created is whole, and no part of one is left by a program
that says it succeeded. `ProgramEnds`: both programs end, although no run of OpenSSL may end by
itself.

*Bounds.* As for `PqRun`, with one change by others: 158,647 states. *Fairness.* The calls the
program itself makes, the runner's steps, and time; no failure and nothing of OpenSSL's is counted
upon. *Assumed.* The directory is new and its owner's alone (the code checks both); what is left of
one run has no part in the next.

### Traceflow

The tracer's table is a function from PIDs to parent, depth and the toggle. A task is running,
stopped for a reason, a zombie, or gone. One action takes one report and answers it, as the body
of the loop does; which of several reports `waitpid` gives is arbitrary.

*Properties.* `PhaseAgrees`: a running task is inside a system call exactly when its entry says
so. `RootStatus`: the tracer's status is that of the command. `NoneEscapes`: nothing is left alive
and traced behind a tracer that returned normally, except a task killed for want of room or one
no entry was made for when it was created (the finding `traceflow_escape`). `StopsAnswered` and `Returns`: each stop is answered in the end,
and the loop ends once the tasks do.

*Bounds.* Three tasks, a table of two (of three in the runs that look for a divergence), four
stops: 148,944 states. *Fairness.* The tracer only. *Assumed.* Tasks have one thread each, and no PID is reused
within a trace.

### ProcessSample

A process is an incarnation of its PID, a number that stands for its start time and for all its
files say. The collector visits the PIDs in order in each pass, then reads `status`, `stat`, `exe`
and `fd` of each, in separate steps; between any two, processes start, end and work.

*Properties.* `RateOfOneProcess`: the two counters behind a rate and the name, owner, memory and
start time of its row are of one process. `NothingLost`: whatever was seen twice is a row or is
counted, and then the answer is not a success. `SurvivorsReported`: of the processes that were
there all along, no more are missing from an answer that skipped nothing than it counts as failed
(any read of `stat` or `status` may fail for a process that lives: permission, no descriptor left, a
text that does not parse).

*Bounds.* Three PIDs, two incarnations of each, two processes kept by a pass and one row by the
answer, five changes. *Assumed.* `/proc` lists PIDs in order; a listing may miss a process that
came or went meanwhile; two processes of one PID differ in their start time (a PID is not reused
within one clock tick). When `/proc` itself cannot be listed there is an exception and no answer.

### AvScan

The tree is a set of paths, each with an inode; `Resize` changes a file in place, `Replace` gives
a path to another inode or to none. The scanner's recursion is a stack of open directories, with
the names each has still to give. `Enter` is fstatat and the checks on it, `Open` is openat and
the second look, `ReadFile`/`ReadEnd`/`Report`/`Finish` are `scan_file`, `ListEntry`/`ListEnd` are
readdir.

*Properties.* `WithinLimits`, `ReadsWhatItSaw`, and `CompleteUnlessBlind`: an exit of 0 or 1 means
that every file infected all along was reported, but for two ways in which the walk does not see
that it missed something (the finding `avscan_exit`). "All along" takes in one thing the scanner
cannot know (`StillTainted`): it reads a file it has open, and if that is by now another file than
the one under the path, and is written into through another of its names, what it reads is not what
the path names; neither size nor inode of what it has open need tell. With three changes and two
names of one inode the property fails without that clause, which the run's one change does not show;
the proof did.

*Bounds and assumptions.* As for `PathWalk`, with whose run it is checked; `AvScanExit.cfg` has the
same tree. What a rule looks for is in the first unit of a file (that the search finds it anywhere
is the matter of `FileHash`). A directory that takes the place of another has the same names.
`Twins` are paths that may be names of one inode. There is no liveness property: a file may be grown
for ever, up to its limit, and readdir may block.

### PathWalk

One module for the other programs that walk the tree of `AvScan`; `walker` says which one runs, and
the C scanner is one of the choices, so that one run checks them all. `PyTake`, `PyList`, `PyOpen`,
`PyHash` and `PyEnd` are `scan` and `hash_file` of `antivermis.py`, which keeps paths on a list
and reaches each object by its path; `Lsx` sums a row through open directories, `LsxPy` by paths and
inodes; `Linkscan` and `LinkscanPy` are the searches. `mtime` counts how often
an inode was written, which only the Python scanner looks at.

*Properties.* `PyExitMeansComplete`: an exit of 0 or 1 of the Python scanner means, with no
exception, that every file infected all along was reported. `SizesWhole`: a size without a star is
no less than what nobody touched below the row, and exact if nothing changed. `ListsEverything`: if
no failure and no limit is shown, each name that was there all along has a row, and each name of the
target is found, but for what a search says it passes over. The search begins at a directory:
`linkscan.py` walks below `SEARCH_ROOT` (`linkscan.py` 18) and finds nothing when that is the linked
file itself, which `linkscan` finds. With `WithinLimits`, `ReadsWhatItSaw`
and `CompleteUnlessBlind` of the C scanner.

*Bounds.* Six paths at three depths, of which one is too long for a buffer and three may be names
of one inode; each limit (files, depth, bytes of a file, bytes of all, findings, rows, entries of a
listing) is low enough to be met; sizes 0 to 3; one change by others at any moment. 3.1 million
states. More changes are a matter of the proofs, which bound neither their number nor the tree.
*Assumed.* No directory is replaced by a link to another directory. *Left out.* `list_path` of
`lsx.c` for a single file, sorting and printing.

### Monitor

One monitor, C or Python. It reads the CPU counters and then the devices, one step each, so that
devices come, go and are reset in between; Python looks into `/sys/block` before, which tells it what
disks to look for. A sample keeps what it looked for (`seen`); `report` keeps the differences a
percentage or a rate is made from. A C monitor writes its header when it finds the log empty, but into
a buffer that goes out with the first line, or when it leaves its loop; another C monitor may do the
same on the same log. `moved` is what has really been transferred, whatever became of the counters.

A read fails in one of two ways. Either the monitor gives up (`ReadFails`: a file does not open or
does not parse; `RefuseInterval`: `sample_system` raises for an interval above 30 seconds, which
`syswatch.py` takes up to 3600). Or it goes on without a word, and `missed` is set: the C monitor takes
an error in `/proc/net/dev` or `/proc/diskstats` for the end of the file and adds up some of the devices
or none (`ReadStopsShort`); Python takes a `/sys/block` it cannot read for one without disks
(`ScanFails`), and a disk whose `slaves` it cannot read for one that is not made of others
(`SlavesFail`).

*Properties.* `NeverOverstates`: the busy share is no more than was busy, and the transfers no more
than went through the devices that both samples looked for; but when C's first sample stopped short, all
that the devices it missed have transferred since they came is counted as well (`Unknown`), and TLC finds
the report too large without that exception. `ShortfallExplained`: with steady counters a report
is exact about the devices looked for, if these were the same both times; what the first sample found and
what stays is found by the second, unless a read has failed without a word (TLC finds it missing then,
without a warning, in both programs); Python shows each device it saw in a row or in a warning, and what
becomes of one device
takes nothing from what the others have transferred. (A device that comes and goes between two
samples is in neither, and what it transferred is in no report and in no warning, which an earlier
form of this property denied; four events do not show it, the proof did.) `StatusTruthful`: what an exit
status of 0 means, with `--count` and without, and that without an error only Python fails, for a CPU
counter or for the interval. It does not say that nothing was missed: what fails without a word ends
with 0, too. `LogFaithful`: a line for each report, in order, and
one header unless two monitors found the log empty.

*Bounds.* The interface `lo`, which only Python shows, a disk both see and a disk made of it, which only
C adds up; two samples; four events, failures included. 4.2 million states. *Assumed.* A device that
appears starts from zero; a failed flush drops its buffer
whole; the five logs are treated alike, as are both directions of each device; a log opened before
another that does not open is closed with its header, as it is after `ReadFails`. *Left out.* Whether
what is shown reaches the terminal.

### McpServer

Each call is new, waiting, running or done. `Acquire` and `Refuse` are the two outcomes of a
semaphore's timed wait; `Refuse` can only be taken when no permit is free at that moment. `Collect`
runs one report of a workflow, `Return` ends an operation in each of the ways the code has
(finished, too long a response, an exception nobody stops), with the release of the `finally`.

*Properties.* `PermitsConserved`, `AnswersTruthful`, and `NobodyWaitsForever`.

*Bounds.* Two permits and four calls, two of them workflows of one and two reports: enough for two
to wait while two run. *Fairness.* For each call the timed wait ends, one way or the other; an
operation that runs may hang for ever, and then its permit is not released.

### SessionX

`owner` gives for each PID the owner of its process; `Change` ends a process, starts one, or gives
one (or its PID) to another user. `Fill` is a batch of readdir, `Look` the first look at one
process. The C program goes from there to `LookAgain` and kill and on to the next entry; Python
first looks at all, cuts the list, spares itself and its parent, and then goes through its targets
(`NextTarget`). `KillFails` distinguishes a process that is gone from one that may not be
signalled: C counts both, Python passes over the first and stops at the second.

Calls fail for processes that are there, too. A first look that fails passes the process over, in
both programs (`LookFails`, which notes it in `missed`); a second one that fails is counted by C and
ends Python (`LookAgainFails`). If `/proc` cannot be opened the C walk returns 1, which only the
listing ignores, and Python ends with 2 (`ListFails`); an error of `readdir` is the end of the
directory for C (`ReaddirFails`). `cut` notes a listing that ended early and did not say so.

*Properties.* `SignalsOnlyOwned`: a signal reaches a process of another user only if the PID
changed between the second look and the signal (that window is there, and the code does not claim
otherwise), and never on request root's, PID 1 or the tool. `StatusTruthful`: a status of 0 of a
run that met no limit, and whose listing was not cut short unnoticed, means that each process that
stayed the user's was found, and signalled unless it is spared, or is one of `missed`; Python's
count is right if nothing changed or failed, and never too small. So a status of 0 is no promise
when a look or a `readdir` fails; it is for everything else.

*Bounds.* Five PIDs (1, the parent, the tool, two others), three accounts of which one is root,
every owner of every process, every caller; the limits are met (4 looks, 2 targets); three
changes or failures, enough for a PID that is given away between two looks and taken back before
the signal.
*Assumed.* The kernel lists `/proc` in the order of the PIDs; the owner of a directory of `/proc`
is the user that counts for the permission to signal. What is printed arrives.

### BoundedRead, JsonFormat, JsonGrammar and ReadJson

`BoundedRead` has six readers in one state machine: `read_file_bounded` (a buffer that doubles),
`read_database` (the size it has seen, no more and no less), `read_bytes` and `_bounded_hash` (on to
one byte past the limit, then a look whether the file is as it was), and, a piece at a time,
`hash_local_database` and `scan_file`. A file is a sequence of characters that
others append to, truncate or write into between two steps; `capacity` is the size of the buffer
(in Python, which has none, the limit on all reads). A text is a sequence of characters too, where
one stands for all that the code treats alike ("1" for nine digits, "true" for three names).
`JsonFormat` is the code: a parser that goes from position to position, and a formatter that is a
fold over the characters. What recurs in the code is a recursive function here: of the positions
(`StringEnd`, `ParseMembers`), or of the depth (`Parse`: the ends of the values that start at each
position, by way of those one deeper). `JsonGrammar` is the reference: a text is a value if it can be
cut into parts that are, which knows nothing of an order of parsing. `ReadJson` joins them: what was
read, torn or whole, is validated, measured and printed.

*Properties.* `ReadsWhole`: what is made of a file is all of it at one time, in Python whatever
happens, in C if it was not changed. `RefusalHasCause`: no file is refused but for a failed call,
its type, its size or a change; in particular one of exactly the limit is read.
`PrintsExactlyJson`: the validator accepts the texts of the grammar, nested no deeper than the
limit, and no others, except for a backslash before a NUL. `OutputFaithful`: what there is to print
is what was read but for white space outside strings, formatting it again changes nothing, and it is
within the limit; what leaves the program is a start of it, all of it after exit 0 if no write
failed; nothing of a text that is refused is printed. Neither program flushes stdout: `PrintJson`
leaves up to a buffer (`Stdio`) of the output behind, which goes at `Exit` or, unnoticed, is lost
(`ExitFails`), so that exit 0 by itself means all but that much.

*Bounds.* All texts of up to 3 of 21 characters, of up to 4 or 5 of the characters of brackets and
numbers, of up to 7 brackets, strings of up to 4 characters in quotes, and objects of up to two
members: with the databases of `SigDb` 39,000 texts, of which the longest exceed the limits on input (11), output (18) and
nesting (2), and most the buffer of stdout (3). Five of them change while they are read; two events (short reads, failing calls,
changes). *Assumed.* A change of a file shows in its modification time, which Linux keeps to a
clock tick. Two hexadecimal digits stand for the four of an escape.

### FileHash

The hash is known by the blocks that were transformed for it: `Update` fills the block, `Final` pads
it, with the length in the last bytes. `carry` is what `scan_file` keeps of one piece for the next,
`seen` the indicators `inspect_text` has found. `Feed` gives both the piece that `BoundedRead` has
just read.

*Property.* `PiecesDoNotMatter`: however the reads cut a file, the blocks are those of the padded
file (`Padded`, after FIPS 180-4, which knows nothing of pieces), and the indicators are those of
the whole text: none is missed where two pieces meet, none is found that is not there.

*Bounds.* Blocks of 4 with 2 for the length, pieces of up to 3, a window of 2 and an indicator of
3: a block fills up in the middle of a piece and at its end, the last block has room for the length,
just room, and none; short reads cut five texts anywhere. *Assumed.* An indicator is no longer than
the window and one byte (`HashAssumption`; in the code 14 and 256). *Left out.* The compression of
a block, and files of 2^61 bytes, whose length in bits would not fit.

### SigDb

A database is a sequence of lines as Python's `splitlines` breaks it, a line a record with what
either parser tells apart: the kind of its size field, the sizes of files it fits, the lengths of its
label, of the blanks behind that and of the whole, and how it ends: with LF or CR LF, with a CR alone,
or with another control (VT, FF, FS, GS, RS) at which only Python breaks lines. C breaks at LF only
(`CStarts`), drops what follows a CR, and takes what follows another control, like trailing blanks,
for a part of the label (`Behind`). `CLoads` and `PyLoads` are what `load_database` and
`parse_database` accept, `CFinds` and `PyFinds` the records each look-up returns, `CLabels` and
`PyLabels` their labels with what is behind them.

*Property.* `SignaturesAgree`: a database of the documented form is loaded by both. Whenever both load
one, every file that C reports Python reports, too; under C's label (but for trailing blanks, which
Python strips) if no such control is in the database; and under no other, and no further file, if no
CR alone is in it either. Each condition is needed: without it TLC finds a database that both load
and read differently.

*Bounds.* All databases of up to three lines of twenty-one, with two signatures at most. *Left out.*
Bytes that are not ASCII and tabs in labels, which make Python refuse the database.

## 3. The runs

| run | shows |
|---|---|
| `avupdate` | the updaters' properties and the refinement, 1.4 million states |
| `pqkey` | the runs of OpenSSL, the files of a key, and the end of both programs |
| `traceflow` | the toggle, the end of the trace, and that each stop is answered |
| `traceflow_escape` | *violated:* the trace may end before a task it follows |
| `process_sample` | rates and coverage of the process list |
| `process_row` | *violated:* a row may carry the executable of the next process |
| `walks` | limits, inspection and completeness of both scanners, sizes of both listings, what both searches find |
| `avscan_exit` | *violated:* a scan that missed something may exit with 0 |
| `mcp_server` | permits, answers and progress |
| `sessionx` | who is signalled, and what a status of 0 means, for both programs |
| `monitor` | reports, exit status and log of both monitors |
| `readjson` | six ways to read a file that changes; pieces against the whole; the two database parsers against each other; validator and formatter against the grammar |

The type invariants are not among the properties of the runs; those that a proof needs are part of
its inductive invariant.

Deadlock is not checked (`CHECK_DEADLOCK FALSE`) where the programs end: a runner that has
returned, a scan that is over. It is checked for the updaters, which may always be started again.

### Findings

Each `violation` run checks one sentence of the documentation against what the code does.

* `FollowsAll` (`c/traceflow.c` 95). When a creator is killed at its fork event, the table may be
  empty before the first stop of the new task is read, and the loop ends.
* `RowOfOneProcess` (`processes.py` 98). The identity compared at the end was read before the
  executable and the descriptors.
* `ExitMeansComplete` (`c/antivermis.c` 383-388). A path longer than the buffer, and an error of
  `readdir`, leave no mark on the exit status.

One more disagreement has no run of its own, but is an exception in `PrintsExactlyJson`: the
validator looks for an escape with `strchr` (`c/jsonfmt.c` 35), which also finds the NUL that ends
its list, so that a string with a backslash before a NUL byte is accepted, while README line 250
says that JSON is grammar-validated before output.

## 4. The proofs

Theorems hold for any number of updaters, calls, tasks, processes, paths, contents, bytes and
events, under the assumptions the modules name: `UpdateAssumption` (the original database is whole
and accepted, the destination is no temporary name), `SessionAssumption` (the tool and PID 1 are two
processes, root is an account), `PqAssumption` and `KeyAssumption` (the bounds are numbers, the pipe
holds something), `TraceAssumption` (the table holds something), `SampleAssumption` (PIDs are
positive), `ScanAssumption` (the limits are numbers), `TreeAssumption` (every path is below the
root), `ServerAssumption` (the calls are a finite set, there is a permit), `ReadAssumption` (the
limits are positive, no program is of two kinds), `LineAssumption` (what a line is made of; a label C
has room for is one Python accepts, as 96 and 128 are in the code), `HashAssumption` (a block has
room for the length, an indicator is no longer than the window and one character), `JsonAssumption`
(an escape has digits), `PrintAssumption` (`"end"`, which `At` gives for the end of a text, is no
character), `MonitorAssumption` (the devices
are a finite set, of which each program looks at some). TLC evaluates them in the runs.

**AvUpdateProofs.** `DestinationSound` is not inductive: that the renamed file is whole depends on
what its owner has established. `Inv` adds, for each updater, `Established` (what was compared
with what by the time it is at each step) and `Written` (what its temporary file holds at each
step: a prefix, all of it, all of it on disk); `PastSound` (everything a power loss may bring back
is sound); `AbandonedPresent`. That two updaters do not disturb each other rests on
`TempsAccounted`, which is part of `Inv`: a temporary file has one owner. From `Invariance` follow
`TypeCorrect`, `DestinationAlwaysSound`, `TempsAlwaysAccounted`, `ReportsAlwaysTruthful`, and
`Refinement`, `Spec => InstallsAtomically`, in which a successful `Rename` is `Install`, and every
step of a program before it is a stutter.

**PqProofs.** For `PqRun`, `Inv` says by phase of the runner what it knows: `InLoop` (the child is
unreaped and what was written is in the pipe or in the output), `AtEof` (nobody is left to write),
`Reserved` (an unreaped child or a living group reserves the PID), `ChildEnds`, `GivingUp`.
`StrangersSafe` rests on `Reserved`, `SuccessAlwaysComplete` on `InLoop` and `AtEof`;
`FailureAlwaysCaused` and `NothingEverLeftBehind` on `GivingUp`. For `PqKey`, `KeyInv` adds that only
the output of a successful run is saved (`Saved`), where a part of a file may be (`Parts`), and what
is there as long as nobody else has touched the directory (`Undisturbed`); a step of a run keeps it
because it keeps `Inv`, and a new run begins where `Inv` holds. `NeverAnyOverwritten` and
`KeyPairAlwaysWhole` follow, and the runner's four properties in both programs.

**TraceflowProofs.** `Phases` says what the toggle is at each kind of stop: one behind at a
system-call stop, else right. That a task can be entered late with a fresh toggle rests on
`Outside`: whoever is alive without an entry is at its first stop, or killed, and has made no system
call. `Followed` says why nobody is forgotten: such a task is about to be reported by its creator,
which stands at its fork event and has an entry, so that the table is not empty. From these follow
`AlwaysPhaseAgrees`, `AlwaysRootStatus` (with `RootKnown`) and `AlwaysNoneEscapes`;
`TableNeverOverflows` counts the table on its own.

**ProcessProofs.** The process collector and the session tool. The processes a PID is given to follow each other (`Kernel`), and what is
read of a row comes after the counters, in order (`InOrder`): first counter, second counter, status,
start time. If the last equals the second, so does what lies between
(`AlwaysRateOfOneProcess`). The executable and the descriptors come after the start time, which is
why the same cannot be proved of them (the finding `process_row`). `CountInv` says, stage by stage,
into which parts what was seen twice falls (not yet visited, a row, counted under one reason), and
each step moves one PID from one part to another: `NothingEverLost`. For `SurvivorsAlwaysReported`,
`SurvivorInv` says that the processes that are still what they were but no longer on the way to a row
(`LeftOut`: neither ahead of a pass nor in what it has found) are no more than were counted as failed,
or the answer has something to skip. Of the session tool, `SessionInv` knows who may be
asked for and that the last look holds until the next change; `SignalsAlwaysOnlyOwned` follows. For
`StatusAlwaysTruthful`, `Covered` says how far the work has come: `Walked` (what was listed was looked
at or passed over when the look failed, or is still to be looked at), `CSignals` and `PySignals` (what was found is signalled, about to be, or counted as
a failure), `Untouched` (as long as nothing has changed, what was found is as it was). `AllKept`
counts: below its limit Python's cut takes nothing away.

**WalkProofs.** `Limited` (beyond a limit nothing more is entered), `Fits` (what is read of a file
fits in what is left of the total) and `Counted` give `AlwaysWithinLimits`;
`AlwaysReadsWhatItSaw` is inductive with them. Completeness of a walk is, for every walker, one
statement of the same form: whatever was there all along is done with, or a failure shows, or it is
*ahead*: at hand, below what is at hand, or below a name that is still to be given by an open
directory (`Accounted`), is on the list of paths (`PyAccounted`), or has a row or a stack entry to
come (`LsxAccounted`, `LsxPyAccounted`, `LinkAccounted`, `LinkPyAccounted`). "Below" is `Up`, which is
therefore no recursion but the least set that holds with a path its directory; what the proofs use of
a tree are `ChildOnTheWay` (from a directory on the way to a path one of its children leads on) and
`OnTheWay` (what leads to something that was there all along is a directory now). For the searches,
`ReplacedIsNew` says that what takes a path has a number no path had from the start. From these follow
`AlwaysCompleteUnlessBlind`, `PyExitAlwaysMeansComplete` and `ListsAlwaysEverything`;
`ScannerImplementsAvScan` carries the theorems about the C scanner over to `PathWalk`, where it is one
of the walkers. `ListsAlwaysEverything` supposes that the target's names do not include the root of
the search, see `PathWalk` above; the invariant behind it, `ListInv`, supposes nothing.

`SizesAlwaysWhole` is about the same two listings, and adds up. `TreeInv` says what a tree of
directories is: two paths of one inode name a file, and before the first change every path has the
number it began with. `Whole(k, S)` is the claim about a part `S` of the tree: `k` is no less than the
files in it that nobody touched (`Weight`), and just that as long as nothing was changed. In `lsx`
(`LsxSizes`) every row is whole, and the row being made is whole without what is still `ToSize`: what
lies below a name that the walk is at, or below one that an open directory has not given yet. Each
step takes one path, or one directory with what is below it, from `ToSize`; that these are disjoint
(`Apart`, `Nested`: of two open directories one is below the other) is what lets the sums be added
(`SumDisjoint`). `lsx.py` counts an inode once, so that its claim is of inodes (`Holds`): a row holds
the files below its name but for what it could not read (`blind`) and what is in its `Queue`, where no
path is below another (`Separate`). That an inode already `seen` need not be added again rests on its
having been added to the same row (`RowHolds`).

**ServiceProofs.** The server and the monitors. `Remembers` ties what a workflow has noted to the
reports it has had. `PermitsAlwaysConserved` counts finite sets, one call at a time;
`AnswersAlwaysTruthful` and `ServerTypeCorrect` follow from the same invariant. `MonitorInv` says what a sample knows of the counters it was taken from:
that busy and idle time have not gone back, and the I/O wait no further than it was seen to
(`CpuSince`); and that no device's counter has grown by more than the device has transferred, and by
just that if it was neither gone nor reset (`DevicesSince`, of the devices a sample looked for); and
that while no read has failed unnoticed, what was found and has stayed is looked for again (`SeenInv`).
The difference of C's sums is split into what both samples looked for, what the first one found and the
second did not look for, which only takes away, and the rest (`Volumes`). `ReportInv` says of which
program's arithmetic the report is the result, `LogInv` how the lines lie in the log and in the
buffers. `MonitorsNeverOverstate`, `ShortfallsAlwaysExplained`, `MonitorStatusTruthful` and
`LogAlwaysFaithful` follow, for any devices, counts and number of events.

**SummationProofs.** The monitors add up sets of devices, the listings sets of files. What their
proofs need of `Sum` is proved here (`SumStep`, `SumAtMost`, `SumExtends`, `SumEqual`,
`SumDifference`, `SumDisjoint`, `SumSubset`). The library's `MapThenSumSet` is defined by a
recursive function of the subsets, and the induction over them is a smallest counterexample by
inclusion (`FiniteMin`, from `FS_StrictSubsetOrderingWellFounded` and `WFMin`, neither of which has an
operator as parameter).

**BoundedReadProofs.** `Kept` is the heart of it: as long as nobody changes the file, what was read
is its start, which each read extends (`ReadAppends`, from the library's theorems on sequences).
`Phases` and `Sized` say what is known at each step, so that `ReadsWhole` follows where the length
is that of the file (`WholeFile`). `SignaturesAlwaysAgree` is a fact about pure functions of a
database: a record that C finds is one Python finds (`FoundByBoth`), with the same label where lines
end alike (`LabelsAgree`); and a database that C loads has no hash twice, so that, where all lines
end with LF, what Python's dictionary keeps for a hash is the one line C's search can find
(`OneRecord`, `NoOthers`). These theorems are of
`ReadSpec`, the readers alone. `PiecesNeverMatter` is of `HashSpec`, the readers with what they feed.
An update of the hash is a loop, and in the model a recursive function of the rounds; that it stops
with nothing left is an induction over the rounds (`Counting`: a set of numbers that does not hold all
of them lacks a least one). `Cut` says what a round leaves: so many whole blocks of the text, and the
rest of it in the block that is being filled; `Given` says this of the context after all that was read.
`UpdateCuts` carries it over each piece, wherever the cuts are, and `FinalIsPadded` over the padding,
which comes out as that of the reference. For the indicators, `WindowFinds` says that an occurrence is
in what was read before, or in the window of the last `Keep` characters and the new piece. `Fed` is
both, for a file that is not refused yet.

`PrintsAlwaysExactlyJson` is of `Spec` of `ReadJson`, and of texts of any length: `ValidIsText`, the
validator accepts a text just if the grammar does, and `Judged`, every verdict is the validator's on
what is in the buffer. Parsing is recursive three times over, along a string, along the members of an
array or an object, and into the depth, each time from a function's values further on to its value here
(`Descends`). That there is such a function (`DescentExists`) and that what holds further on holds here
(`Downwards`) are inductions from the end, by `Counting`.

* *Strings.* `Unit` is one character of a string, or one escape. A unit at the front can be taken from
  the characters of a string and put before them (`UnitAfter`, `UnitBefore`), whatever the grammar says
  of where its escapes start; hence `StringEnd` finds the one quote that can end a string
  (`StringEndsAt`).
* *Numbers.* The grammar is ambiguous as to where a number in a text ends, the parser is greedy: it
  finds the end of a number if no more of one can follow it (`ParsesNumbers`).
* *Values.* That condition is part of `Agrees`, which is what parser and grammar have in common at one
  depth: what the parser finds is a value, and of a value with a delimiter behind it the parser finds
  the end. A series of parts is one part, or a part, a comma and a series (`OnePart`, `PartBefore`,
  `PartsAre`), so that the loop over the members finds a series with its bracket (`MembersSound`,
  `MembersComplete`). From `Agrees` one deeper follows that arrays and objects are found exactly
  (`ParsesCompounds`), and `Agrees` here (`ParsesValues`); at the limit there are none. `ParseAgrees` is
  the induction from the limit up.

`PrintedWasRead` says that the reader's and the hash's properties hold with the viewers composed, too;
`PrintInvariance` is the invariant of all of them.

**Only model-checked.** Liveness (`ProgramEnds`, `StopsAnswered`, `Returns`, `NobodyWaitsForever`)
depends on fairness and on ENABLED, which TLAPS cannot reason about. `OutputFaithful` compares the
formatter's output as a whole with its input: of two strings of different length, one made by a fold,
it says that they are the same without white space (`Squeeze`, which picks the nth character that is
kept), and that formatting is idempotent; it is checked on bounded texts.

## 5. What no property covers

* `pqcommon.py` 43-48 collects its child and then, if the status is not 0, signals the child's
  process group by a number that may be somebody else's by now; the C runner keeps the child
  unreaped as long as it may signal it (`pqcommon.c` 78). `NeverSignalsStranger` is claimed of C only.
* `pqkey` does not sync the directory, so that a pair it says it created may be gone after a power
  loss; nothing checks that the reopened `private.pem` is the file that was saved.
* The last of several renames wins: an updater that fetched an older pair may undo a newer update
  (nothing in the code compares versions), and "updated" is printed before the directory is on disk.
* The two parsers accept different databases: C refuses the line "ANTIVERMIS-SIGDB 1" and duplicate
  hashes, which Python accepts, so that the C scanner may refuse what the Python updater installed;
  C accepts sizes with a sign or a blank in front, tabs and other bytes in labels; labels are shorter
  than 96 in C and up to 128 in Python; Python accepts sizes beyond 64 bits. `SignaturesAgree` speaks
  of what both load. Of that C ignores what follows a CR within a line, where Python finds further
  records, and has in a label the blanks and controls that Python strips or breaks at.
* `readjson` and `rdr2dot0` do not flush stdout before they return 0: what its buffer holds may be lost
  to a full disk with exit 0 (`ExitFails`; `OutputFaithful` says how much).
* A write in place that keeps a file's size goes unnoticed by the C scanner, and by
  `hash_local_database` within one second; bytes of files that failed do not count towards the
  scanner's total. The Python scanner looks for indicators in the first 65,536 bytes only.
* `lsx` exits with 0 and prints no footnote although a row has a star; `lsx.py` passes over what it
  cannot read, and `get_directory_usage` then answers with success; `linkscan` passes over what it
  may not read, overlong paths and deep directories, and exits with 1 both for no match and for a
  walk it gave up.
* The C monitor divides by the nominal interval although it may wake late, adds partitions and
  stacked devices to the disk rate, and lets memory in use wrap when more is available than there is
  in total (Python clamps). Without `--count` it exits with 0 even if its second sample failed. It
  ignores failed writes of its log; Python's lines have no header and go to files of the same names.
  Python's monitor ends with 2 when the I/O wait goes back, and when it is given an interval above 30
  seconds, which its command line allows.
* A read that stops short is noticed by neither monitor: C never asks `ferror` (`syswatch.c` 83-97,
  106-122), and its next report may count all that a device has transferred since it came; Python leaves
  out disks, or counts one together with those it is made of (`metrics.py` 133, 139).
* Whether what a program prints arrives is modelled for `readjson`, `rdr2dot0` and `pqcheck` only.
* An `exec` by a thread that is not the leader, and a `SIGSTOP` somebody else sends a tracee.
* A task whose first stop the tracer reads before the fork event of its creator is entered under
  the command (`c/traceflow.c` 107) and stays there (41-42), so that a grandchild may be printed at
  the depth of a child.
* `sessionx` passes over a process whose directory `stat` fails for, in both languages, and in C takes
  an error of `readdir` for the end of `/proc`; either way it may exit with 0.
* `sessionx` in C spares itself, in Python also its parent; the C one says that the limit of the
  walk was reached, the Python one cuts its list without a word.

## 6. Plan

In order; each step gives its module, what composes it, the properties and the proof.

1. `OutputFaithful` for any text: a state of the pass (in a string, behind a backslash, the depth) that
   the output has at the place of each character, from which both its halves would follow.
2. `list_startup_entries` as one more walker of `PathWalk`, behind the policy that resolves a path,
   and `inspect_process` with the reads of `ProcessSample`.
3. `McpServer` over `ProcessSample`: the answer of a real collector as a report of a call.
4. The pure algorithms that are left: the scoring of `codebreaker`, the unbiased choice of
   `randpass`, the budget of operations of the quantum simulator, checked over bounded inputs.
5. Telemetry: the endpoint rules and limits of `telemetry.py`, with a service that answers late, too
   much, or not at all.
