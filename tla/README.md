# Verification of the OPC UA test tool

TLA+ models of `opcuatesttool`: the TestService process with its job scheduler,
its files, its event stream and its remote Lua console, the TestRunner processes
it forks, and the pages of the web client that depend on them. TLC checks the
models on small instances; TLAPS proves the safety properties that the passing
runs check, and the refinement of the abstract job queue, for every instance.
`PROJECT.json` lists components, runs, mutants, hazards, findings and theorems,
and maps each definition to its source lines.

## 1. The system

A client POSTs a *job request* (a script, a target server, a log level) to the
TestService. The service writes the request to `jobs/requests/<id>.json`, queues
the id and forks up to four TestRunner processes. A TestRunner parses the
request, connects to the OPC UA server, runs the Lua script and writes
`jobs/finished/<id>.json`. The service learns from SIGCHLD that a TestRunner has
ended, sends a JobFinishedEvent to all web clients that listen on `/api/events`,
and starts the next waiting job. Beside that the service serves the scripts of a
git repository and a Lua console (REPL) that runs in a child process of its own.

| component | state | operations | hard because |
|---|---|---|---|
| **Job scheduler** `testService/JobScheduler.*`, signal thread in `TestService.cpp` | `waitQueue`, `activeJobs`, mutex `_m`; process table and pending SIGCHLD of the kernel | `create`, `schedule`, `jobFinished`; `sigwait`/`wait` loop; fork | HTTP threads, signal thread and children interleave; signals coalesce; three kinds of children; the process may die |
| **Job database** `testService/DataBase.*` | directories, request files, `m_jobId` | constructor, `newJob` | crash between system calls; failures are not checked; the names of the files are the only persistent record of ids |
| **Results** `DataBase::getFinishedJobs`, `getFinishedJob`, handlers in `api/Server.h` | result files | `GET /api/jobs`, `GET /api/jobs/<id>` | reads files that other processes are writing |
| **TestRunner** `testrunner/*` | job status, result file | parse, load, eval, addResult | every step may throw; may die at any time |
| **Events** `EventDispatcher` in `api/Server.h` | `id_`, `cid_`, `message_`, mutex, condition variable | `wait_event`, `send_event` | a waiter must get the mutex again after its notification |
| **Threads of the service** `api/Server.h`, `JobScheduler.cpp`, httplib | pool of threads, queue of connections, `_m` and `m_` | accept, take, handle; send an event with `_m` held | every event client keeps a thread; a client that does not read holds up everyone behind both mutexes |
| **Script repository** `DataBase::getScripts/getScript/updateScript/cloneScriptRepo`, `getScripts.sh` | files under `repo/scripts` | list, read, save, reload; run in a TestRunner | no lock at all; `rm -rf` and `git clone` under readers and writers |
| **REPL bridge** `testService/Repl.h`, `repl/console.cpp`, stand-alone in `repl/server.cpp` | terminal queue, pipe | type a line, read-eval-print, listen on the pipe | several typists on one terminal; partial reads; lost events |
| **Web client** `hmi/testToolApp` | what a page shows | subscribe, fetch, select, save | answers in any order |

The parts interact in four ways. *Calls*: an HTTP thread calls the scheduler and
the database. *Processes and signals*: the scheduler forks, the kernel answers
with SIGCHLD. *Files*: requests and results, between service and TestRunner, and
between one service process and the next. *Events*: scheduler and REPL listener
call the dispatcher, whose waiters write to the clients.

What makes each component correct:

* scheduler: at most `maxConcurrentJobs` TestRunners exist; no accepted job
  vanishes; a service process starts its jobs in order, none twice; a slot is
  given back when its TestRunner ends; every end is announced; no slot stays
  empty while a job waits;
* database: as long as the request files can be created and the power stays on,
  an acknowledged job has its request on disk, and no id is used twice;
* results and TestRunner: a result says "Ok" exactly if the script ran to its
  end, a request for a list fails only because of jobs that had not finished, no
  finished job is left out, and a list is as long as was asked for;
* events: no lost wake-up, the right message, in order;
* threads: no request and no end of a job waits for ever behind a slow client;
* scripts: a file holds one text, not a mixture, what was saved stays, and what
  a client reads or a job runs is one version of the text;
* REPL: lines arrive whole, output arrives without gaps, nobody hangs;
* pages: what is shown belongs to what is selected, and ends up current.

## 2. Modules

| module | models | composition |
|---|---|---|
| `JobQueue` | the abstract promise of `POST /api/jobs` | refined by `JobScheduler` |
| `JobFiles` | the search for the first free id (`DataBase.h:44`) | used by `JobScheduler` and `DataBase` |
| `JobScheduler` | scheduler, signal thread, kernel | `Abstract == INSTANCE JobQueue WITH ...` |
| `DataBase` | directories and request files, one system call per step | the steps of what `create` of `JobScheduler` does at once |
| `TestRunner` | the TestRunner processes | |
| `FinishedJobs` | `GET /api/jobs`, `GET /api/jobs/<id>` | EXTENDS `TestRunner`: readers and writers interleave |
| `EventDispatcher` | `wait_event`, `send_event`, connections | |
| `ServiceThreads` | httplib's pool, the handlers as holders of threads and locks, the signal thread | EXTENDS `EventDispatcher`: each of its steps is a step of the service |
| `Scripts` | the script files, the requests that touch them and the TestRunners that run them | |
| `ScriptEditor` | the script page | EXTENDS `Scripts`: the page against the service |
| `ReplBridge` | terminal, REPL child, pipe, listener, events, console page; the stand-alone service | what `EventDispatcher` does to one connection, abstracted to five states |
| `JobsView` | the jobs page | listing and events abstracted from `FinishedJobs` and `EventDispatcher` |
| `JobFiles_proofs` | lemmas about ids | used by all the proofs below but two |
| `JobScheduler_proofs`, `DataBase_proofs`, `EventDispatcher_proofs`, `FinishedJobs_proofs`, `JobsView_proofs`, `ScriptEditor_proofs`, `ReplBridge_proofs` | theorems | each EXTENDS its module; `EventDispatcher_proofs` also has those of `ServiceThreads` |
| `MC...` | instances for TLC | |

### 2.1 JobScheduler

Variables carry the names of the code: `waitQueue`, `activeJobs`, `m_jobId`,
`mutex` for `_m`. `procs` is the kernel's table of the service's processes, each
of kind `runner`, `repl` (forked in `main`) or `shell` (from `system()`).
`sigPending` is the **one** pending bit of SIGCHLD. `pc`, `jobId` and `pid` are
the position and locals of each thread. `announced`, `firstId`, `forked` (the
TestRunners of this service process) and `intact` (every request file could be
created so far) are history.

| action | code |
|---|---|
| `Start` | `main()` up to `listen`: SIGCHLD blocked, REPL forked, next id found, `cloneScriptRepo` run once (its SIGCHLD stays pending) |
| `create` | `JobScheduler::create` up to the call of `schedule`, `DataBase::newJob` included. The request file may fail to be created: the id is counted up, returned and queued all the same, and `intact` becomes FALSE |
| `schedulePostpone` | both early returns of `schedule` |
| `scheduleFork`, `scheduleRegister` | pop and `fork()`; `activeJobs[pid] = jobId` in the parent |
| `scheduleForkFails` | `fork() == -1`: the service exits |
| `sigwait`, `wait`, `jobFinished` | the loop of the signal thread |
| `cloneScriptRepo`, `systemReturns` | `system()` in an HTTP thread, which competes with `wait()` for its shell |
| `RunnerExit`, `ShellExit`, `ReplExit`, `OrphanExit`, `Crash` | the environment |

A step ends where another actor can interfere. Between `fork()` and the
registration of the pid the mutex is held, but the child may already end.
Pids are never reused: a wrap-around of the pid space within the few
instructions between `wait()` and the mutex is left out. `Crash` ends the service
process, never the machine: power loss is in `DataBase`.

`JobQueue` says what a client may rely on. Within one service process: fresh
ids, start in the order of the ids, each job at most once, at most `Max` at a
time. Across restarts ids are fresh and no job starts twice only as long as
every request could be stored, because the next id is looked up among the
request files: after a file could not be created, a restart hands its id out
again (`DataBase.cpp:14`, `DataBase.h:44`). Waiting jobs are lost when the
service ends, because nothing reads old requests again. The refinement maps
`stored` to the request files, `issued` to the ids this process handed out,
`begun` and `started` to the jobs of the TestRunners that this or any service
process forked, and `running` to those of them that are running.

### 2.2 DataBase

The same `newJob()` in four steps (call, open, write, return), the constructor
one directory at a time, and an end anywhere. The open and the write may fail,
and the code looks at neither (`openRequestFails`, `writeRequestFails`). `Crash`
is the end of the service process, which keeps what it has handed to the kernel;
`PowerLoss` is the end of the machine, which may keep any part of the directories,
the files and their contents, because nothing is synced. The histories say what
went wrong, so that each property can name the condition it needs: `unwritten`
has the ids whose request could not be written completely; `faults` has
`openFails` (a request file could not be created), `powerLoss`, `mkdirCrash`
(the constructor was cut short) and `volume` (the `jobs` directory is a mount
point, as in the Dockerfile, and exists before the first start).

`Dirs` has the directories the code uses. The comment `DataBase.h:10-20` also
draws a `logs` below `jobs`, which nothing creates and nothing reads: the logs
are in `root/logs`. That disagreement is listed as a finding, and `LayoutReady`
speaks of the two directories that jobs depend on.

### 2.3 TestRunner and FinishedJobs

Each TestRunner goes through `createFromFile`, `load`, `eval`, `addResult`,
`writePiece`, `closeResult`, and may die anywhere. The result file is `none`,
`empty`, `torn` or `complete`. The directory may be missing for good
(`finishedDir`, the volume of section 2.2): a result is then never stored
(`addResultFails`), and every list is answered with 500 (`scanThrows`). The
reader of a list opens the directory, sees all files that were there and some
that have appeared since, then reads files one by one with the loop conditions
of the code, and parses the text. The reader of a single result reads its file,
or has the text "job not found", and parses that. The text itself is a sequence
of (id, state of the file when read) and a flag for a separator at its end.
`finished` is history: the jobs whose results were complete when the request
began.

`FailsForUnfinished` says when a list is answered with 500: when it holds a job
that had not finished when the request began, or when it runs upwards into a job
without a result before it is full. `WithinMax` bounds the lists that run
upwards by `max`; downwards the code returns up to `max + 1` jobs, which is a
finding (section 4).

### 2.4 EventDispatcher and ServiceThreads

The worker thread of a connection is in the `provider` loop of httplib,
`sleeping` on the condition variable, `notified` and waiting for the mutex,
`writing` with the mutex held, or `ended`. Spurious wake-ups happen. A message
is the number of its event. A client may stop reading (`stall`): httplib then
gives up after its time limit, and either skips the event (`is_writable()` is
false) or breaks the connection (`write()` fails).

`ServiceThreads` adds what these threads share with the others. Accepted
connections wait in `tasks` for one of `Pool` threads. A thread that takes a
client of `/api/events` is in the dispatcher from then on; one that takes another
request holds its thread until it has answered. `POST /api/jobs` needs the
scheduler's `_m` (`create`, `createReturns`); the signal thread reaps a
TestRunner, takes `_m` (`jobFinished`), and sends the event with `_m` held
(`jobFinishedEvent`), for which nobody may be writing; `replEvent` is the REPL
listener. What a handler does to jobs or files is in the other modules.

### 2.5 Scripts and ScriptEditor

A file is an inode, so that a thread that has it open keeps it when it is
deleted. A text belongs to a script and has a version; texts of one and of two
blocks occur, so that a short text written over a long one shows, and so that a
reader, who reads block by block, can be overtaken by a writer. `rm -rf`,
`rmdir`, `git clone` and its checkout (create a file, write it out) are separate
steps. `repo` and `dir` are two directories: git makes `repo` at once and
`repo/scripts` only when it checks out the first file, so that during the whole
fetch lists are answered with 500 and saves find no directory. The remote may
be unreachable (`fetchFails`), and git may give up beside another change
(`checkoutFails`).

Two histories carry the excuses of the properties. `mixed` has the scripts whose
file an update opened while another update, or git's checkout, had it open for
writing; `WholeUnlessOverlap` says that nothing else mixes a file. `alone` says of
a change that no other one has begun or been under way since it began, and of a
read that the file was there and not mixed when it was opened and that nobody had
it open for writing from then on; `ReadWhole` and `UndisturbedStays` are about
these.

The page sends up to `Workers` requests at once and applies each answer to
whatever it shows by then; `newJob` of the page has a TestRunner read the script
(`script_file`) like any other reader. The answer to a list or to a text may be
lost (`error`): nobody handles that, and the page keeps the old text beside the
new name (`missing`). `SaveKeepsApart` therefore has two conditions (`hasty`):
the user neither selects nor saves while a script is being fetched, nor
saves after one that did not arrive.

### 2.6 ReplBridge

A posted line is typed character by character (`ioctl(TIOCSTI)`), the child
reads up to a newline or until its buffer is full, what it has read is a whole
statement, a wrong one or asks for a continuation, and output goes through the
pipe into events. An event meets a client that waits, one
that is away, or one that has been notified and not yet woken: the last one is
stuck (section 4). Without a terminal (as in a container without `-t`) every
`ioctl` fails and the child ends at once; it also ends at once if it cannot be
executed or `LUA_INIT` fails (`startFails`). `standalone` selects
`repl/server.cpp`, whose listener prints the output and sends no events.
`wanted` and `taken` are history: all characters of the lines posted so far, in
their order, and all that the child has read. A character is (line, position).

Output is a sequence of pieces, a piece being what at least goes into one event:
a read of the pipe returns any number of them. `Server.h:228-233` turns each run
of newlines into one `\n` and puts the text unescaped into a JSON string, which
the page parses. A piece has a kind for what that does to it: `plain` text
arrives as it is; `special` text, with empty lines or with backslashes that make
JSON escapes, arrives altered; `broken` text, with a quote, a tab or another
backslash, makes the event no JSON. `Convert` and `Parses` are these two
outcomes, and `ShownUnlessLost` says that the page shows the conversion of what
the child wrote. A run of newlines or an escape that is cut in two by the
listener's buffer of 1024 bytes is a third outcome, outside this model; so is the
page's own `data.replace` (`repl.component.ts`), which only concerns how its
terminal breaks lines. The input queue of a real terminal holds 4095 characters
and drops the rest; that of the model is not limited.

### 2.7 JobsView

Requests have a number, are served at some moment and answered at some
later one, or never (`receiveFailure`; `failed` has the kinds of requests whose
last one got no answer). The server's answer is computed when it is served.

## 3. Runs

Bounds are constants named `Max...` plus the sizes of the sets. All are
in the cfg files.

| run | instance | shows |
|---|---|---|
| `MCJobScheduler` | 2 workers, 2 slots, 3 jobs, 1 `system()` call, 2 service processes, 5 pids | `ConcurrencyBound`, `WorkConserving`, `CompletionRecognised`, `AnnouncedWhenReaped`, `NoJobVanishes`, `StartOrder` and the refinement `ImplementsJobQueue` |
| `MCJobSchedulerLive` | 4 jobs, one service process, the REPL keeps running | `SlotsRecover` and `EveryJobStarts`: coalesced signals delay jobs, and do not block the queue |
| `MCJobSchedulerStall` | as above, the REPL may end | **violation** of `EveryJobStarts` |
| `MCDataBase` | 2 contents, ids up to 3, 4 calls, ends of process and machine | `AckedDurable`, `NoGap`, `LayoutReady` |
| `MCDataBaseOpenFails` | 2 contents, ids up to 4, 5 calls | **violation** of `RequestsPreserved` |
| `MCEventDispatcher` | 2 event clients, 2 other requests, a pool of 2 threads, 3 events | `FreshDelivery`, `NoLostWakeup`, `DeliveredInOrder`, `ServedUnlessOvertaken`; `RequestServed` and `EndsAnnounced`: a client that does not read holds up nobody for ever |
| `MCFinishedJobs` | 3 jobs; from in {1, 9}, max in {-2, 0, 1, 3} | `ResultHonest`, `FailsForUnfinished`, `WithinMax`, `ListedUnlessGap` |
| `MCFinishedJobsHidden` | only valid requests, nobody dies | **violation** of `FinishedAreListed` |
| `MCScriptEditor` | 2 scripts, 2 requests at once, 6 in all | `WholeUnlessOverlap`, `ReadWhole`, `UndisturbedStays`, `SaveKeepsApart` |
| `MCScriptEditorList` | 3 requests in all | **violation** of `ListAnswered` |
| `MCReplBridge` | an empty line and one of 1 character, each with its newline, a buffer of 2, statements that print one piece of any kind, 1 job event; both services, with and without a terminal | `LinesIntact`, `ShownUnlessLost`, `EveryLineRead`, `ListenerEnds` |
| `MCJobsView` | 3 jobs, 2 requests at once, 1 selection by the user | `LogOfSelected`, `ListCurrent` |

Each passing run but `MCJobSchedulerLive` also checks its module's `TypeOK`.

**Why the bounds are enough.** Scheduler: two slots and three jobs make a job
wait while both slots are taken and both TestRunners end under one signal. Five
pids are enough for a REPL per start and every job, and for a shell beside two
starts and two jobs, or one start and three; only a behaviour with two starts,
three jobs and a reload of the scripts lacks a pid for its last fork. Two starts give a crash at every
point, orphans of the first process beside jobs of the second, ids found again
from the files, and ids handed out twice after a file could not be created. Live: four
jobs over two slots leave two waiting when both slots are lost. Database: four
calls over three ids leave room for a gap, a restart that fills it and the call
after that, with an open, a write or a directory lost anywhere. Events: a waiter
can be overtaken, one can be served while the other is overtaken or does not
read, and both jobs end beside an event of the REPL; two clients can hold the
whole pool, one of them leaves one thread for two requests. Results: three ids
have a middle, so that a gap hides one job and not another; `from` is one that
exists and one that does not, `max` is negative (the parameter is signed and not
tested), zero, less than the number of jobs, and all of them. Scripts: two
overlapping requests out of six reach open, reload, open, save, and the second of
two scripts. REPL: the two lines can be mixed in every way; the newline of the
first fits into the buffer, the second is read in two pieces; three statements
and a prompt fill the pipe while the page connects, follows and loses an event;
the proofs cover statements with more than one piece. Jobs page: three jobs give a gap
in the listing and a list answered before, between and after events.

**Deadlock** is checked for `ServiceThreads`, where a client may always connect
or disconnect. The other models stop when their bounds are used up or, as the
system does, when no client asks for anything.

**Symmetry** (worker threads, script names, request slots) is used only in runs
without liveness properties; the code does not tell these apart.

**Fairness.**

* `JobScheduler`: weak fairness of each step of the threads (they are ready to
  run and the kernel's scheduler is fair; the mutex is held for a bounded number
  of steps), of a TestRunner's end (its script is finite; a script that never
  ends holds its slot for ever, and nothing in the code limits its time) and of
  a shell's end. None on clients, `Crash`, `scheduleForkFails` and `ReplExit`.
* `EventDispatcher`: weak fairness of the waiters, which is enough because
  events are bounded; `write` returns because httplib limits the time of a
  write. `ServedUnlessOvertaken` excuses clients that do not read.
* `ServiceThreads`: weak fairness of taking connections from the queue, of the
  handlers and of the signal thread, which are never blocked by more than a
  mutex held for bounded time. None on clients (they may connect, stop reading,
  stay for ever), on the end of a TestRunner, on httplib noticing a broken
  connection and on the REPL's output.
* `ReplBridge`: weak fairness of the typing threads, the child, the listener and
  the page's connection. None on the clients' posting and connecting, nor on the
  child's end.

**Mutants.** Each property of a passing run has a mutant of the code (named
`<definition>_<what is wrong>`, beside the definition) that breaks it: among
others an off-by-one in the slot test, an unlock before registration, a dropped
`schedule()` in `jobFinished`, `notify_one` for `notify_all`, a missing
truncation, a missing `fail()` test.

## 4. What the runs found

1. **The queue can stall for ever** (`MCJobSchedulerStall`,
   `TestService.cpp:52`). `handleSigChld` reaps one child per SIGCHLD. If the
   REPL child and the TestRunners of all slots end before the signal is taken,
   there is one signal for all of them; `wait()` may return the REPL, the slots
   stay with zombies and no child is left to raise the signal again. As long as
   only TestRunners end this cannot happen (`MCJobSchedulerLive`): each `wait()`
   returns a TestRunner, which frees a slot, which starts a job, whose end
   raises the next signal. Events of reaped jobs may be late until then.
2. **Existing requests can be overwritten** (`MCDataBaseOpenFails`,
   `DataBase.cpp:14`). A request file that could not be created leaves a gap;
   after a restart the constructor takes the gap for the next id, and the job
   after it gets an id that has a file already.
3. **Finished jobs can be hidden** (`MCFinishedJobsHidden`, `DataBase.cpp:126`).
   The listing stops at the first id without a result. Jobs end in any order.
4. **The list of scripts fails** during a reload and after one that could not
   reach its remote (`MCScriptEditorList`, `DataBase.cpp:26`).

Two more disagreements were met while modelling and are listed as findings
without a run:

5. **A list may hold one job too many** (`DataBase.cpp:122`). `api.md:28` and
   `openapi.spec:24` call `max` the maximum number of jobs to return; a list of the
   newest jobs, which runs downwards, holds up to `max + 1`. `WithinMax` claims
   `max` for the lists that run upwards only.
6. **`jobs/logs` does not exist** (`DataBase.h:34`). The comment `DataBase.h:10-20`
   draws it; the constructor makes no such directory, and the logs are in
   `root/logs` (`DataBase.h:76`).

The models follow the code in these points too, without a run of their own:
a request without `max` has `max = 0`, so that the
forward listing is empty although `api.md` calls `max` optional; the
forward listing ends in a comma, and is answered with 500, if there are fewer
than `max` jobs after `from` (`DataBase.cpp:102`); a malformed request is
accepted, and its job never gets a result (`JobFactory.cpp:23`); a `jobs`
directory that exists before the first start, or a first start that is cut
short, leaves the subdirectories missing (`DataBase.h:34`), and then no job is
ever stored and no list answered; after a request file could not be
created, a restart hands out its id again, and two TestRunners run under one id
(`DataBase.cpp:14`); a request that could not be written is acknowledged as any
other (`DataBase.cpp:15`); every update of a
script is answered with 500, because the handler takes the response for one of
another type (`Server.h:143`); an event that is sent before a notified waiter has
the mutex leaves that waiter waiting for a number that never comes back
(`Server.h:24`, `Overtaken` in `EventDispatcher`), and its thread is lost to the
pool even when the client has left, because a closed connection is noticed only
on a write; the pages never close their `EventSource` (`jobs.service.ts:46`), so
that each visit of a page takes a thread too, and once the pool is used up
(`Exhausted`) no request is answered; a job that runs while its script is
saved or checked out may run an empty or cut script and report Ok
(`Runtime.cpp:71`); an update that opens a script while another one, or git's
checkout, writes it leaves a mixture, which is shown and run from then on
(`DataBase.cpp:63`); a text that does not arrive leaves the old one under the new
name, for Save to store (`script.component.ts:31`), and a log that does not arrive
leaves the log of another job (`jobs.component.ts:30`); REPL output with a quote
is not valid JSON and ends the page's subscription, empty lines of the output are
lost and backslashes change it (`Server.h:231`); lines posted
at the same time are mixed (`Repl.h:108`).

The conditions in `StartOrder` (and `JobQueue`), `AckedDurable`, `NoGap`,
`LayoutReady`, `ServedUnlessOvertaken`, `RequestServed`, `ListedUnlessGap`,
`WholeUnlessOverlap`, `ReadWhole`, `UndisturbedStays`, `SaveKeepsApart`,
`LinesIntact`, `ShownUnlessLost`, `LogOfSelected` and `ListCurrent` are exactly
these cases and power loss: the properties say that nothing else goes wrong.

## 5. Proofs

The theorems hold for every value of the constants that satisfies the named
assumptions: `maxConcurrentJobs` is positive, threads and pids are distinct from
the values that stand for none, bounds are natural numbers. Neither `Workers`
and `Pids` of the scheduler nor the sets of the other modules need to be finite,
with one exception: `ScriptAssumption` takes `Names` and `Workers` to be finite,
because the model has as many inodes as entries and open files, and that one is
free when a file is created is then a fact about cardinalities. Only
`SlotsRecoverAlways` has a hypothesis of its own (below).

**JobScheduler_proofs**: `TypeOKAlways`, `ConcurrencyBoundAlways`,
`WorkConservingAlways`, `CompletionRecognisedAlways`, `StartOrderAlways`,
`AnnouncedWhenReapedAlways`, `NoJobVanishesAlways`, `SchedulerImplementsJobQueue`,
`SlotsRecoverAlways`. None of the properties is inductive. `ConcurrencyBound`
counts processes, while `schedule()` counts entries of `activeJobs`: the link is that each TestRunner
child has an entry or is about to be registered by the thread that holds the
mutex. The invariant `IndInv` is the conjunction of

* `IdInv`: as long as every request file could be created (`intact`), the files are
  0 .. n-1 and a running service counts from n;
* `LockInv`: exactly the thread that holds the mutex is inside `schedule()`;
* `DownInv`: nothing is left in memory when the service is down;
* `SlotInv`: how full the slots are at each point of `create` and
  `jobFinished`. This is why **one** call of `schedule()` per event is enough:
  with two or more jobs waiting, at most one slot can be free;
* `RunnerInv`: a TestRunner has its entry in `activeJobs`, under its own job,
  from registration until `jobFinished()` has handled it;
* `OrderInv`: the queue holds the last ids this process handed out, in order; the
  TestRunners it forked, and while `intact` those of any process, have ids before
  the front of the queue.

`ConcurrencyBound` follows by comparing cardinalities: the children are a subset
of `DOMAIN activeJobs` plus the pid being registered, and `SlotInv` leaves a slot
for that one. `StartOrder` is an action property: `OrderInv` puts the head of
the queue after every job this process started so far, and while `intact` after
every job any process did.

`HistoryInv` adds what the events and the process table say about the past:
`ShellInv` (a child that `system()` waits for is a shell), `RunnerJobsInv` (no
two TestRunners of this service process have the same job), `StartedInv`
(the ids this process handed out before the front of its queue have a
TestRunner), `AnnouncedInv` (nothing is announced for a job that waits or is still
to come) and `AnnouncedWhenReaped` itself. `NoJobVanishes` follows from
`StartedInv` and `OrderInv`.

`SchedulerImplementsJobQueue` takes the actions one by one: from `IndInv` and
`HistoryInv`, `create` is `Submit` (`OrderInv` makes the id fresh among those of
this process, `IdInv` among all while `intact`), `scheduleFork` is
`StartFirst` (`OrderInv` gives the order; the running TestRunners are counted
against the entries of `activeJobs` as for `ConcurrencyBound`), `RunnerExit` is
`Finish` (`RunnerJobsInv`: no other TestRunner keeps the job running), a crash or a
failed fork is `ServiceEnds`, and every other step stutters.

`SlotsRecover` (while all slots are taken, a TestRunner is running, a SIGCHLD is
pending or the signal thread is at work) has the hypotheses `ReplMayExit = FALSE`
and `MaxClones = 0`, the setting of `MCJobSchedulerLive`: only TestRunners end.
Without them it is false, by the stall of section 4. `RecoverInv` is
`OnlyRunnersEnd` (with the REPL running and no `system()`, each `wait()` returns a
TestRunner), `RoundInv` (a round of the signal thread frees a slot before it fills
one, and a child that ends before it is registered has its signal) and the
property.

**DataBase_proofs**: `TypeOKAlways`, `AckedDurableAlways`, `NoGapAlways`,
`LayoutReadyAlways`. The invariant
is `TypeOK`, `DirsInv` (which directories can exist at which point) and, while
every file could be created and the power stayed on, `Written`: for some n the
files are 0 .. n-1, the counter agrees with them at each point of `newJob()`, and
each acknowledged id is below the file being written and has its content in the
file unless its write failed. Without the part about the counter, the open
that truncates could hit an acknowledged file. `NoGap` is read off `Written`.

**EventDispatcher_proofs**: `TypeOKAlways`, `FreshDeliveryAlways`,
`NoLostWakeupAlways`, `DeliveredInOrderAlways`. Only `NoLostWakeup` is part of the
invariant as it stands. It also needs `CountInv` (`cid_`, `message_` and `id_`
move in step, so that the number a waiter takes is never the current one, and
its first test of the predicate never succeeds), `WriterInv` (exactly the writing
waiter keeps the mutex, and its event stays the current one under it) and
`OrderInv` (what a client has been sent lies before what its waiter waits for,
from which the order of the next delivery follows).

In the same module, about `ServiceThreads`: `ServiceImplementsDispatcher`, that
each step of the service's threads is a step of the dispatcher or leaves it
alone, and `ServiceDelivers`, which carries the properties over to the service.

**FinishedJobs_proofs**: `TypeOKAlways`, `ResultHonestAlways`,
`FailsForUnfinishedAlways`, `WithinMaxAlways`, `ListedUnlessGapAlways`. `RunnerInv`
ties the result file to the position of its TestRunner and to whether the script
ran to its end. `FilesInv` says what a request knows of the files, which may
only grow under it, and that they are bounded, so that a highest id exists.
`LoopInv` gives the k-th entry of the list in both directions, and so its length;
`PhaseInv` why the loop ended and when a separator is left over.
`ListedUnlessGap` then follows: a finished job in range that is not in the list
lies behind an id without a file. So does `FailsForUnfinished`: a job that had
finished was read complete, and a separator is left over only where the next
job had no file.

**JobsView_proofs**: `TypeOKAlways`, `LogOfSelectedAlways`, `ListCurrentAlways`.
The properties speak of moments when nothing is under way; the invariants say
the same of every moment, about the latest request: while it is under way
(`Latest`), it is for the selected job (`LogInv`), or it is still to be served or
was served with the list as it is now (`ListInv`, once all jobs have ended and
the page knows); after it (`Arrived`), the page shows its answer, unless it was
the request that got none. `CountInv` has
the numbering of the requests.

**ScriptEditor_proofs**: `TypeOKAlways`, `WholeUnlessOverlapAlways`,
`ReadWholeAlways`, `UndisturbedStaysAlways`, `SaveKeepsApartAlways`. The invariant:

* `ShapeInv`: which fields of a request are meaningful at which step;
* `LinkInv`, `SharedInv`: two names never share a file, and a file that several
  threads have open is open under one name. Without it, writing to an open file
  that a reload has deleted could change another script;
* `WholeInv`: a script that is not mixed is complete, or empty with one writer;
* `ReaderInv`: what an undisturbed reader has so far is the beginning of a
  complete text, and nobody is writing that file;
* `StableInv`: how far an undisturbed save or reload has come, and that what it
  left is still there;
* `ApartInv`: as long as the user waits for a selected script, and does not save
  when it has not arrived, every text stored, open or shown under a name is a
  text of that name.

There are many actions and few things they do to files, so the steps are first
shown to be of one of six kinds (`Quiet`, `ReadStep`, `Create`, `Fill`, `Accept`,
`Answered`); each part of the invariant is then proved once per kind.

**ReplBridge_proofs**: `TypeOKAlways`, `LinesIntactAlways`,
`ShownUnlessLostAlways`. `QueueInv` says that what has been typed and what the one
typing thread still has together are what was posted; `OrderInv`, for mixed
lines too, that what was typed of a line lies before what is still to be typed
of it, so that no character is doubled or moved within its line; `ReadInv` what
one `fgets()` returns; `EventInv` that output is on its way only to a notified
page. `ShownUnlessLost` is part of the invariant; that a read cuts the pipe
anywhere does not matter because the conversion of two sequences of pieces, one
after the other, is that of both together (`ConvertConcat`). Both
ends of the terminal are kept as plain sequences of characters (`wanted`, `taken`), because facts about a concatenation of all lines would need
induction over the list of lines.

**JobFiles_proofs** has the lemmas about ids that these proofs cite: the search
for the next id ends at n on 0 .. n-1, and on any finite set of ids at one that
is not in the set; a bounded set of ids has a least and a greatest element.

**Only model-checked.** Liveness under fairness is beyond the prover:
`EveryJobStarts`, `ServedUnlessOvertaken`, `RequestServed`, `EndsAnnounced`,
`EveryLineRead`, `ListenerEnds`.

## 6. Not modelled

* what a Lua script computes and what the OPC UA client library does: a script
  ends, throws or crashes its process;
* logging, formatting, HTTP framing and the web application's layout;
* requests that only read one file, or nothing, and answer (`GET /api/targets`,
  OPTIONS, the files of the web application); the log of a job appears in
  `JobsView`;
* `luaRunner`, which is commented out of the build; `Config`, which the service
  includes and does not use;
* `persistence/InfluxDBImporter.cpp`. It polls `localhost:9080/jobs`, while the
  service listens on 9888 and serves `/api/jobs`; it expects a bare array of jobs
  with a `request.id`, which neither the answer of `/api/jobs` nor a result
  written by a TestRunner has; and the `at()` that misses it is outside the `try`.
  There is no behaviour of the two together to model;
* reuse of a pid between `wait()` and `jobFinished()` (`TestService.cpp:53`), and
  what `fileno(NULL)` does in a child whose log cannot be opened
  (`JobScheduler.cpp:56`) beyond the child ending without a result;
* the choice of a target on the script page: it is copied into the request and
  decides nothing else;
* the terminal widget of the console page (its cursor is relative to the screen,
  its lines are counted from the top of the buffer: `repl.component.ts:31`);
* the width of `fromId + max` and `highestId - max` in the listing: ids and `max` are
  mathematical integers in `FinishedJobs`;
* vendored code, build files, the container.

## 7. Plan

Done, in this order: scheduler with its abstract queue and proofs, database
with proofs, events, TestRunner and results, scripts and their page, REPL bridge
with both services, jobs page; the threads of the service around the events; the
runs of scripts beside their changes; proofs of all safety properties and of the
refinement. Next:

1. that the steps of `DataBase` implement what the one-step `create` of
   `JobScheduler` does to the files, whether or not the file can be created, as a
   refinement of its own;
2. safety of `ServiceThreads` beyond the dispatcher: the number of threads in use
   against `Pool`, and that `_m` and `m_` are always taken in that order;
3. that `ListedUnlessGap` and `ListCurrent` fit together: the listing `JobsView`
   assumes is one that `FinishedJobs` can return.

## 8. Running

    tlc -workers 2 -config MCJobScheduler.cfg MCJobScheduler
    tlapm JobScheduler_proofs.tla
