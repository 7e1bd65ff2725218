# Product Description Optimizer: a TLA+ model

The program imports products from a CSV file into a SQLite database, has a
language model rewrite their descriptions one by one, and exports the result.
A daemon does the work; a command line and a desktop application talk to it
over a local socket. This directory has four models:

* the daemon: its database, its jobs, its requests, its crashes and restarts;
* the daemon as one process among others that is started, found, stopped and
  cleaned up after;
* a text from a language model: the two calls of an optimization, their retries,
  and the session with a Codex app server behind some of them;
* the desktop application: the main window against statuses that arrive late,
  and its settings and export pages against everything else that changes what
  they show.

TLC checks all four; TLAPS proves their types and every safety property the runs
check, for all values of the constants. The code is `src/pdo/` of the
repository; all file names below are relative to it.

## The system

| Component | State it keeps | Operations | Modelled |
|---|---|---|---|
| Product database, `core/db.py` | tables `products`, `pipeline_state`, `column_mappings`, `metadata`; one connection behind one lock | insert, claim/finish/fail a product, requeue failed or interrupted ones, apply corrections, page for exports, replace from a staging database, reset | `ProductTable`, `Store` |
| Error groups, `core/error_groups.py` | none | classify an exception; which groups can be retried | `ProductTable` (range only) |
| Optimization job, `core/optimizer.py` | loop variables: product, counts, remaining selection | pick, hold while paused, claim, pace, call, save, save an error | `Optimizing` |
| Import jobs, `core/importer.py`, `daemon/worker.py:84-138` | number of rows inserted | append, replace through a staging database, corrections | `Importing` |
| Export job, `core/exporter.py` | current page, temporary file | page, write, publish | `Exporting` |
| Worker, `daemon/worker.py` | pause and stop events, last result, active stage, thread | start a job, pause, resume, stop with a ten-second join, reset, status | `Worker`, `Daemon` |
| Server, `daemon/server.py` | the request being handled, shutdown | one request at a time; shutdown | `Daemon` |
| Daemon lifecycle, `daemon/launcher.py`, `lifecycle.py`, `pid.py`, `endpoint.py`, `startup.py`, `core/instance_lock.py` | launch lock, instance lock, PID file, endpoint file | find, start, stop, replace and clean up after daemons | `Processes`, `Commands`, `Lifecycle` |
| Wire protocol and client, `protocol/messages.py`, `cli/client.py` | a connection | framed request and reply with deadlines | partly: `Commands`, `Pages` have requests with failures and deadlines |
| Codex client, `core/codex_client.py`, `codex_optimizer.py` | reader thread, message queue, kept notifications, child process | open, call, wait for events, generate, sign in, list models, cancel, close | `Codex` |
| Language-model backends, `core/*_optimizer.py` | attempt, generated text | two calls, retries, validation | `Generation` |
| Configuration, `config.py`, `cli/config_cmd.py` | one TOML file; copies in the daemon and the desktop | read, merge, replace | `Form`, `Pages` |
| Desktop: main window, `desktop/app.py` | last status, pending action, request in the pool, page, dialogs, tray | poll, apply a status, start an action, turn pages, hide, quit | `Service`, `Window` |
| Desktop: settings and export pages, `desktop/app.py`, `session.py` | controls, discoveries and previews in the pool with their generations | edit, check, save, preview, export | `Form`, `Pages` |
| Linux tray, `desktop/linux_tray.py` | a D-Bus service | show, quit | as the window sees it: `Window` |
| Watch, `cli/optimize_cmd.py` | last status | poll until the daemon is idle | no |
| CSV formats, registry, model discovery, other commands, packaging | none | detection heuristics, lookup tables, I/O, build | no |

### How they interact

The server's thread accepts one connection at a time, reads one request and
answers it (`server.py:169-245`). Requests for work start the worker's thread,
if it is not busy; the thread runs one job and ends. The two threads share the
database, whose methods hold one lock for their whole body, and the worker's
fields: two `threading.Event`s and three plain attributes, without a lock. The
database file and the exported file outlive the process; everything else does
not. When a process starts it opens the database and returns rows that were in
work to the queue (`server.py:131-135`, `db.py:406-422`).

Which process that is, four files of the data directory decide. A daemon holds
`pdo.lock` from its start to its end and writes `daemon.pid` and
`daemon.endpoint` once it listens; clients connect to what the endpoint file
says. Commands that start, stop or repair hold `launch.lock` meanwhile - a
daemon started by hand does not - and hold `pdo.lock` for the moment in which
they remove stale files. A launched daemon reports to a socket its launcher
listens on.

An optimizer runs in the worker's thread. It makes two calls of a language
model for a product, the second to validate what the first generated; three
adapters call an HTTP service in a loop of attempts, and the ChatGPT
subscription opens a Codex session for each call: a process that is written to,
a thread that reads its output into a queue, and the caller, which waits for
replies and notifications with a deadline.

The desktop application runs in one thread with an event loop. It asks the
daemon for things in two ways: requests of the user's own actions wait for their
answer in that thread, and a timer's status requests, discoveries of models and
previews run in a pool and are delivered later, each with the generation it was
submitted in. A message box or a file dialog runs an event loop of its own
within the handler that opened it, so the rest of the handler waits while
further answers are delivered. The settings are in a file that the daemon
replaces on a request and the command line replaces by itself; the worker and
the window hold copies.

### What is hard here

* The thread reads a row, waits - for a resume, for a request interval, for a
  language model that may take minutes - and writes to the row by its id. The
  row may have been reset in between.
* `Worker.stop` waits ten seconds and then returns although the thread lives.
  Its callers do not look at whether it does.
* Every database call may fail, the calls in exception handlers included; after
  a shutdown whose join ran out they all fail.
* The process may be killed between any two of these steps; `executescript`
  commits a reset statement by statement, so also within a reset.
* Pause, resume and stop arrive between the job's checks of the two events.
* A status reply and an export are made from several reads.
* Clients look at the endpoint, at the PID file and at the process one after
  the other, then signal it or remove its files; daemons start, end and are
  killed in between, and each may leave any part of its files behind.

* A Codex server may send notifications before the reply they belong to, ask
  for permissions, fall silent, exit, or leave behind a child that holds the
  pipes open. The deadline and the cancellation must win over all of them. They
  do not win over a server that stops reading: a write to it has no deadline.
* An attempt may fail for good or for now, and both calls of an optimization may
  come back with nothing.
* A status from before a request may be delivered after it; what a handler
  still has to do, and the status it was about, may wait under a dialog while
  newer statuses are applied above it.
* A discovery or a preview ends when what it was for is no longer on the page;
  a status turns the page, or changes the format, under the user.
* Three processes save to one configuration file by reading, merging and
  replacing it.

`PROJECT.json` lists each hazard with its line and the properties that cover it.

### What makes the components correct

* *Database*: every row is consistent (text, data, status, error group); done
  rows stay as they are until a reset or a replacement; the batch is only lost
  on request; interrupted work is found again.
* *Optimization job*: its totals are those of the table; it leaves no product
  out; a retry stays within its selection; it stops promptly; it ends.
* *Import jobs*: a failed import loses nothing; corrections apply all or
  nothing, to failed products only.
* *Export job*: a published file is whole, and the destination is as it was until
  a finished file replaces it.
* *Worker and server*: the stored stage says idle when nothing runs; a reply
  that is not busy carries the final result; resets and shutdowns finish.
* *Lifecycle*: the files name the process that owns the directory; nobody but
  a process itself removes the files of a living daemon; a start starts, a stop
  stops and a repair repairs whatever was left behind; no command hangs.
* *Codex session*: replies and notifications reach who waits for them, in order
  and once; it ends soon after its deadline or cancellation, with the last final
  text of its turn or with an error; it leaves no process behind.
* *Language-model calls*: what may pass is tried again, what will not is not;
  a blank text of OpenAI is an error; every use ends that no provider
  and no Codex server keeps waiting without a deadline.
* *Window*: it never shows an older status than before; an action is ended by
  its own result and by no older one; it is always ended; a hidden window can be
  reached.
* *Settings and export page*: a model is sent with the server, key or account it
  came from; what was typed stays on the page, but for a choice among a local
  server's models; an export writes what was
  previewed; a job runs with the settings it was sent with; no save is lost to
  another one that did not overlap it.

## The modules

```
ProductTable   the products table as a value, each statement as an operator
  Store        the database: tables, connection, outcomes of a call, reset, start
    Worker     events, result, thread: how every job begins and ends
      Optimizing   Importing   Exporting      one job each
        Daemon                 both threads, requests, crash, restart
          DaemonProperties     properties, refinement of Batch
            MCDaemon           instances for TLC
  ProductTableProofs           lemmas about the statements
          DaemonTypeProofs     type correctness
            DaemonProofs       safety of the batch
              DaemonRunProofs  what a run promises, refinement of Batch
Batch          what a batch of products may do, without threads or processes

Processes      daemon processes, their locks and files, from start to end
  Commands     what clients do: ensure, stop, repair
    Lifecycle      both, with what disturbs them; properties
      MCLifecycle      instances for TLC
      LifecycleProofs  types, ownership of the directory and of its files, exclusion,
                       what a command achieves that nothing disturbs

Codex          one session: caller, reader, queue, processes; the server outside
  Generation   the two calls of an optimization, retries, discoveries
    GenerationProperties
      MCGeneration         instances for TLC
      GenerationProofs     promptness, processes, blank texts, attempts, the order
                           of notifications, final texts

Service        the daemon as a window sees it
  Window       the main window
    WindowProperties
      MCWindow             instances for TLC
      WindowProofs         statuses, answers to actions

Form           the settings page and the configuration, as functions
  Pages        the settings and export pages, the file and who saves to it
    PagesProperties
      MCPages              instances for TLC
      PagesProofs          previews, exports, saves, drafts, models
```

### How state and actions correspond to the code

`map` in `PROJECT.json` names the lines of every definition. In general:

* A table is a sequence of rows; a row's id is its position, since ids count up
  from 1 and rows are only deleted all together. A row has an external ID
  (`key`), its source data, a status, an optimized text - represented by the
  data it was written for - and an error group.
* A database method is one step, because it runs under the database's lock in
  one transaction: `Reads`, `SetRows`, `SetStage`, ... or `Raises`. A closed
  connection always raises; an open one may, `MaxFaults` times.
* `pc` is the line the worker's thread is at, `"dead"` when no thread is alive.
  Each action of a job is one line or block between two points where the other
  thread can be seen: a database call, a look at an event, a call of the
  language model. Local variables (`product`, the counts, the selection's
  iterator) are variables of the job's module; they are cleared when the thread
  ends.
* `spc` is where the server's thread is; `"serve"` when it waits for a request,
  `"down"` when there is no process. The server answers one request at a time,
  so a request that takes several steps is not interrupted by another one.
* A kill (`Crash`) clears the memory and leaves tables and the exported file;
  in the middle of a reset it leaves what the statements before it committed
  (`HalfReset`). A reset that keeps the products may also fail at its second
  statement in a process that goes on (`FlagsOnly`). `Start` opens the database again and requeues rows in work.

In the lifecycle's modules:

* `proc[p]` is a daemon process: `pc` is where `DaemonServer.start` is, `flag`
  is `_running` (and `"unset"` before the signal handlers are installed, when a
  SIGTERM kills), `wrote` is `_pid_written` and `_port_published`. `"dead"`
  means there is no such process, `"zombie"` that its parent has not reaped it.
* `launchLock` and `owner` are the holders of the two lock files, `pidFile` and
  `endpoint` what the two other files lead to.
* `client[c]` is a client in one of the three commands; its `pc` names the
  request, wait or read it is at, `pid` and `target` the local variables.
  `startup[c]` is the socket a launcher listens on, and the report in it.
* `Resident` clients are desktop applications: they start a daemon, live on as
  its parent, and may stop it later. The other clients end with their command.

In `Codex` and `Generation`:

* `pc` is where the caller is in `call`, `_receive`, `event` and `close`;
  `"reply"` and `"event"` are the looks at cancellation and deadline
  (`_check_wait`), `"reply_get"` and `"event_get"` the wait at the queue behind
  them. `expired` is a deadline that has passed, `cancel` the event that the
  desktop sets when it closes.
* `reader` is the reader thread; `main` and `child` are the process that was
  started and what it started in its group. `input`, `lines` and `messages` are
  stdin, stdout and the queue.
* A write returns at once, or holds the caller (`Writing`: `"call_held"`, ...,
  where the caller goes on behind it in the name) until the server has read what
  is in the pipe (`Flush`), without a look at cancellation or deadline.
* The server is external. It answers each request in one of the ways the
  client's code tells apart, notifies of anything at any time, and during a turn
  it sends what `generate` and `login` look for, in any order.
* `phase` is where `optimize` is, `attempt` the loop's counter. A text is a
  member of `Texts`, or `None` when it is blank.

In `Service` and `Window`:

* `ui` is `"idle"` when the event loop may handle an event, `"poll"` when an
  action's own status request is next, `"product"` when the details of the first
  product are; `held` is what `_apply_status` does after these.
* `dialogs` is the stack of nested event loops. What a handler does after its
  dialog is in the dialog, and happens when it is closed and on top.
* `poll` is the status request in the pool and `fresh` says whether its
  generation is the current one. A status is read when the request is made and
  delivered later.
* `pending` is `_pending_action`. Its `asked` and `crashes`, a status's `seq` and
  `crashes`, and `answer` are auxiliary: which job an action started, and which
  result it was ended with.

In `Form` and `Pages`:

* A change of a control is a function from the controls to the controls, with
  the signals it emits; loading a configuration is the composition of such
  changes in the order of the code. So is what is sent to the daemon.
* A model has a name, which is all that the program knows of it, and remembers
  the setting and the server, key or account it is for. A check finds any of the
  sets of names in `Offers`; lists are searched by name (`Named`, `Lists`).
* `checks` and `previews` are the tasks in the pool, each with what it was
  submitted for; raising a generation makes them stale (`Stale`).
* A request that saves settings is the steps of its handler: find the worker
  idle and read the file, replace it, load it for the worker, start the job,
  answer. Each but the last may fail.
* `loaded`, `saved` and `met` are auxiliary: the configuration the page last
  loaded, what the file would hold if every save were one step, and whether two
  saves overlapped. So are `remembered`, the models the file has ever been given,
  and `rekeyed`: the window came to know an OpenAI key that it had not sent. And
  `form.picked`: the choice in the list of models is the user's, and nothing has
  chosen since.

Three kinds of steps are merged in `Daemon`, because nothing can happen in between that
anyone can see:

* *Start of a job.* The handlers check `is_busy`, set up the worker's fields and
  start the thread. Only the server's own thread starts threads, and it is in
  the handler; a thread seen dead stays dead. The answer "Worker is busy"
  changes nothing and is a stutter.
* *Signals.* SIGTERM and SIGINT set a flag that the accept loop looks at, so
  they act like a stop request between two requests.
* *`_active_stage`* is tested and read in one expression of `get_status`, with
  `Finally` in between at worst; the module reads it once.

Three variables are auxiliary and no part of the program: `claims` counts the
products started since a pause or stop was requested, `want` remembers which
rows were in scope when an export began, and `before` what the destination held
then. No guard reads them. So is `calm` in
`Lifecycle`: the clients that took the lifecycle lock when every living daemon
answered, and since when nothing was killed, started by hand, or waited for in
vain.

### What is abstracted

* Text: descriptions, names, CSV bytes, error messages and file paths. A file is
  a layout of columns and a sequence of products; that it cannot be read or
  parsed is a choice of the import (`Unusable`). The importer's skipping of
  rows without a usable cell has been done when a file is given.
* The layout of a file stands for its header row, its mapping and its dialect.
  `Keyed` are the layouts with exactly one ID column, and `Covers` the pairs of
  which the second has all columns that the first maps: a correction file need
  not have the layout of the batch.
* A reset without `--keep` that fails between two of its `DROP`s leaves a process
  some of whose tables are missing, so that most calls raise until the next
  start; only its kill at that point is modelled, not its life.
* Time: the join's timeout, the request interval and the pause loop's naps can
  end at any moment their condition allows.
* `error_kind` and `error_message` are set together and are one field.
* A process is a PID with its start marker, so a PID is never reused
  (`_process_marker` is there for that); a record is taken again only when
  nothing refers to it (`Fresh`).
* Reading the endpoint file and connecting are one step, and so are the handling
  of a request and the delivery of its reply.
* Deadlines of clients may pass whenever the awaited has not come.
* Linux only: pidfd, `/proc`, flock. The daemons of before the TCP endpoint
  (`_stop_legacy_daemon`) are left out.
* Start-up from older database layouts, authentication, and the read-only
  requests that page through products.
* In `Generation`, the delays between attempts pass at once; a session's steps
  and the processes' signals are those of Linux.
* `Service` merges a job into a start and an end, and a status into one read:
  `Daemon` has the detail of both. `Pages` reduces jobs and statuses to what
  they do to the two pages.
* In `Window` and `Pages`, message boxes that only delay the user are left out
  of `Pages`; a button counts as enabled as the last status had it (`Window`) or
  always, if only a busy status disables it (`Pages`).
* `Pages` lets the daemon restart only outside a request, and has no answers
  that come after the ten seconds. A format that a status sets counts as a
  gesture, to bound them. The command line sets the address of the local server
  and the key of OpenAI, but no model and no access; of a key changed behind the
  window's back its models cannot tell, and `NoForeignModel` excepts what follows
  (`rekeyed`). Gemini and ZhipuAI, a key and a fixed model each, are left out.
* Environment variables override what a file says (`config.py:126`). They are
  left out, so `RunsAsSent` is about settings that none of them overrides.

## The runs

All instances of `Daemon` have two external IDs and two values of source data; batches and
pages of one or two rows stand for the code's 500, so that every boundary is
crossed. The bounds are `MaxFaults` (failing database calls), `MaxOverruns`
(joins that time out), `MaxCrashes` (kills) and `MaxRows` (table size an append
may reach). Nothing else is bounded: clients send any number of requests. In
`Lifecycle` the bounds are `MaxCommands`, `MaxForeground` (daemons started by
hand) and `MaxFaults` (kills, interruptions, failing set-ups); they bound
histories there, since every command leaves something behind for the next. The
bounds of `Generation` are `MaxUses` (products and discoveries), `MaxNotes`
(notifications before the one that ends a turn), `MaxPages` and `MaxRetries`
(limits of the code, ten pages and three attempts by default) and `MaxFaults`
(exits, malformed lines and stray replies of the server); those of `Window` are
`MaxJobs`, `MaxCrashes`, `MaxGestures` (things the user does) and `MaxDialogs`
(dialogs within each other); that of `Pages` is `MaxGestures` (things the user,
a status with another format or the command line does). Runs that end when
these are used up do not check for deadlock; that what they model comes back is
a property of its own (`CommandsReturn`, `UsesEnd`).

| Run | Instance | Shows |
|---|---|---|
| `work` | two products, one perhaps without data; optimize, retry, pause, resume, stop, status; 2 faults, 1 kill | `OrphansNeedFaults`, `ResultMatchesTable`, `RunIsComplete`, `HoldIsPrompt`, `StatusResultIsFinal` |
| `reset` | optimize, retry, pause, reset, reset `--keep`, stop; 1 join that times out, 1 kill | `RowsConsistent`, `WorkIsCurrent`, refinement of `Batch`, with a job that outlives its reset or the database |
| `imports` | append, replace, corrections, optimize, retry; files with other data for a product, in the same and in another layout, with an ID that is in the batch already, with no row; 1 fault, 1 kill | `DoneIsKept`, `BatchIsNotLost`, `RetryKeepsToSelection`, `StageSettles`, refinement of `Batch` |
| `exports` | three products, pages of two, all scopes, optimize, reset with and without `--keep`; 1 fault, 1 kill | `ExportIsWhole` |
| `progress` | all but imports, fair | `JobsEnd`, `StopsEnd` |
| `commands` | a command line and a desktop application, three processes, two commands at a time and three in all, one daemon started by hand, one kill, interruption or failing set-up | `RecordsAreCurrent`, `ServingIsFound`, `RefusedByDaemon`, `EnsureWorks`, `StopWorks` |
| `lifecycle_progress` | a desktop application, two processes, two commands, one fault, fair | `CommandsReturn`, `StoppedEnds` |
| `generation` | one product or discovery with each adapter; one text and the blank one, three attempts, two notifications before the end of a turn, two pages of models, one fault; fair | `NotesInOrder`, `AnswerIsFinal`, `StopsPromptly`, `LeavesNoProcess`, `BlankIsAnError`, `RetriesWhatMayPass`, `UsesEnd` |
| `window` | two jobs, of the window or of another client, one kill of the daemon, two gestures, one dialog; fair | `StatusNeverGoesBack`, `ActionIsAnswered`, `PendingIsSettled`, `HiddenIsReachable` |
| `pages` | a local server and OpenAI; two addresses, one key, servers that offer the default model or two others, two formats; four gestures | `PreviewFits`, `ExportAsShown`, `NoForeignModel`, `DraftsStayOnThePage`, `SavesSurvive`, `RunsAsSent` |
| `reset_overrun` | reset while a job runs; 1 join that times out | *violated*: `ResetStopsAll` |
| `desktop_zombie` | start after the kill of a desktop application's daemon | *violated*: `EnsureStarts` |

Each of the five specifications has a type invariant, which is proved and not run:
the runs are for what needs an interleaving to go wrong.

Why these bounds are enough: the properties are about one product against the
others, one fault against the handler that meets it and a second one in that
handler (`MaxFaults = 2` in `work` reaches the exception handler's own failing
call), one kill and the restart behind it, and one job that outlives its join.
Two products with different fates, three rows over pages of two, and one more
fault than a handler can take make each of these happen. In `Lifecycle` three
commands are one that leaves something behind and two that meet on it; three
processes are a daemon by hand, one that was launched, and a second launch.
Processes are interchangeable, a symmetry `MCLifecycle` gives TLC for the safety
run. In `Generation` a session leaves nothing behind but what a fault and a
child can keep alive, and `Forget` shows that there is nothing to carry over, so
one use is as good as many; two notifications are one that a call puts aside and
one that the turn's loop takes from the queue, and the end of the turn is a third.
In `Window` one action needs a job before it, whose late result must not be
taken for its own; the second gesture is what is done meanwhile, and one dialog
is enough to hold a handler while statuses are applied above it. The four
gestures of `Pages` are a discovery, two changes that leave and come back to
what it was for, and a save or an export. The mutants listed in
`PROJECT.json` break every property within these bounds; what is proved below
does not depend on any.

### The abstract batch

`Batch` says what may become of a batch of products: an open product is done,
with a text for its data, or failed; failed products are opened again or
corrected; a batch is extended, replaced as a whole, flagged again as a whole,
or cleared. `DaemonProperties!ImplementsBatch` maps the rows to it - claimed,
interrupted and orphaned rows are open - and TLC checks that every step of the
daemon, crashes in the middle of a reset included, is a step of `Batch` or
leaves it alone. That is how the late write of a job that outlived a reset is
seen to be harmless to the batch: either it does for an open row of the same
data what the job was to do, or the row is gone.

### Fairness

`FairSpec` assumes weak fairness of the server's steps and of the worker's other
than a call of the language model. The operating system schedules both threads,
and the lock around the database is held for one statement. Whether a call
returns depends on the provider: OpenAI's carries 120 seconds, those of ZhipuAI
and of a local server rest on the defaults of their libraries, Gemini's has no
timeout (`gemini_optimizer.py:83`), and a Codex session writes without one. So
`JobsEnd` and `StopsEnd` except a job whose call never returns (`Hanging`), and
say that all else ends. Nothing is assumed of clients, crashes or restarts:
`JobsEnd` therefore excepts a job that is kept paused. In the `progress` run no join times out, so
that `StopsEnd` rests on the job reacting to the stop and not on the timeout.

In `Lifecycle`, `FairSpec` has daemons take their steps and clients take theirs
or come to a deadline: every wait of a client has one (ten seconds for a reply,
fifteen for a start-up report or an exit), except the wait for `launch.lock`,
which is fair only while the lock is free. A daemon's own work at its end is
`Daemon!StopsEnd`. Nothing is assumed of commands, faults and desktop
applications.

In `Generation`, `FairSpec` has the thread of the caller take its steps, except
from an attempt of Gemini (`Endless`), and deadlines pass. A caller is blocked
for the 0.2 seconds of a `get`, the five seconds of a `wait` or of a `join`, and
within a write until the server reads or is gone: `Flush` is not enabled before,
so that fairness says nothing of it. Nothing is assumed of the server, of its
processes or of the reader. `UsesEnd` holds when all of them fall silent, and
has two exceptions (`Stuck`): an attempt of Gemini that is never answered, and a
write to a Codex server that lives and does not read
(`codex_client.py:189-195`). Cancellation reaches neither.

In `Window`, `FairSpec` has the event loop go on with a handler that nothing holds,
deliver the answer of the pool and fire the timer, and jobs end unless they are
paused (which `Daemon!JobsEnd` shows). The user, who may leave a dialog open or
not, other clients, crashes, restarts and the tray are free; `PendingIsSettled`
and `HiddenIsReachable` except a daemon that stays away and a window that is
closed. `Pages` needs no fairness: its properties are safety.

### What the violated runs show

1. `reset` answers "Stop all operations and clear the database" with success
   although the job may be alive: `Worker.stop` joins for ten seconds, and a
   call to a language model takes longer, or the job is an import or export
   that never looks at the stop event. `Worker.reset` then clears that event,
   and the job goes on with what the table now holds.
2. A daemon that dies under the desktop application that launched it stays a
   zombie, since nobody waits for the child. Its start marker still matches, so
   `read_pid` calls it alive; with its endpoint file still there every start is
   refused until `pdo daemon stop` or `repair` removes the files.

### What else the models made visible

These are behaviours of the code that the models have and no run refutes, either
because nothing in the repository promises otherwise or because a property
excepts them by name.

* An export between two pages, when a reset overruns its join, finds the table
  empty, takes that for its end and replaces the destination by a truncated
  file. `ExportIsWhole` excepts histories with such a join.
* `export_csv` promises that "a failed export leaves existing files intact"
  (`exporter.py:93`). When the stage cannot be set behind the replacement
  (lines 155 and 156), the job reports an error and the new, complete file is in
  place of the old one. `ExportIsWhole` says that this takes such a call, and
  that every other error and every kill before the replacement leaves the file.
* A call of Gemini has no timeout, and a write to a Codex server that has stopped
  reading no deadline (the last limitation in `docs/openai_provider_audit.md`);
  neither a stop nor the desktop application's cancellation ends them.
* A local server may offer several models. The one that is chosen on the settings
  page and then left with Cancel or the navigation stays chosen when no saved
  model is in the list, since `_load_settings` has none to put back
  (`app.py:707`), and the next optimization is started with it (`app.py:886`).
  `DraftsStayOnThePage` names this one draft; everything else that was typed is
  gone, as `test_desktop_interactions.py:139` tries for the backend.
* `get_status` reads counts, stage, busy flag and result one after the other. A
  reply may say "not busy" with the final result and older counts, which
  `optimize --watch` prints as its last line.
* A start that finds no endpoint but, a moment later, a PID terminates that
  process. A daemon that is started by hand (`--foreground`), which takes no
  lifecycle lock, may serve by then. So may a stop read the PID before such a
  daemon writes it, and then not wait (`lifecycle.py:50-66`). `EnsureWorks` and
  `StopWorks` state what commands achieve when no start by hand comes in
  between, and hold; zombies are an exception of `EnsureWorks`, and none of
  `StopWorks`.
* `CodexClient.close` after a write that failed closes the stream with the data
  still in its buffer; the `BrokenPipeError` of that replaces the `ConfigError`
  the caller was to see (`codex_client.py:160`; outcome `"pipe"`).
* A malformed line ends the reader thread, and a child that holds the pipes is
  then not noticed at close: the exception in `LeavesNoProcess`.
* A validation that is JSON of another shape, a list or a suggestion that is
  null, raises an error nobody expects (`base_llm_optimizer.py:258`,
  `ParseValidation`); the generic adapters take a text of blanks for an answer.
* Two saves to the configuration file that overlap lose one of them
  (`SavesSurvive` excepts them). The window's next optimization writes back the
  address it loaded, over one that was set by `pdo config set` meanwhile.
* A window hidden in a tray that goes away only looks at a status that arrives,
  so it stays hidden while the daemon is down (`app.py:1349-1351`).
* The window says "Export complete" when the daemon it asked was restarted
  meanwhile, since it then finds an idle worker without a result
  (`app.py:1440-1466`; `ActionIsAnswered` excepts restarts). A job of another
  client that it follows may be ended with an older result.
* A model that was saved once stays in the list after another one is saved, also
  when the server or the account that offered it is another by then, until the
  list is filled anew; so does a model of the old key when the key is changed by
  `pdo config set` (`app.py:642-903`). `NoForeignModel` says that nothing else
  gets there.
* The settings button pressed on the settings page makes the page its own
  origin, and Apply and Cancel then lead back to it (`app.py:905-910`).
* A request that saves settings and starts a job has replaced the file when the
  optimizer cannot be created, and then reports an error with the file changed
  (`server.py:270-316`).

## What is proved

For all constants that meet the named assumptions (`NoneAssumption`,
`ColumnsAssumption`, `FilesAssumption`, `FaultsAssumption`, `RetryAssumption`,
`FailuresAssumption`, `BatchAssumption`, `PageAssumption`, `BoundsAssumption`,
`ProcessesAssumption`, `LifecycleAssumption`, `CodexAssumption`,
`GenerationAssumption`, `FormAssumption`, `PagesAssumption`,
`ServiceAssumption`, `WindowAssumption`):
that NULL is none of the values, that files consist of columns and products, that a layout covers itself,
that retries select groups that can be retried, that the classification answers
its own groups, that sizes and bounds are numbers, that no process is both a
daemon and a client, that desktop applications are clients, that adapters and
backends are among those the code has, that a page of models is asked for and an
attempt is made at least once, that a server with models offers at least one, and that the command line sets settings that the
configuration has.

| Theorem | States |
|---|---|
| `TypeCorrect` | `Spec => []TypeOK` |
| `Consistency` | `Spec => []RowsConsistent` |
| `Currency` | `Spec => []WorkIsCurrent` |
| `DoneRowsStay` | `Spec => DoneIsKept` |
| `BatchStays` | `Spec => BatchIsNotLost` |
| `RetryStays` | `Spec => RetryKeepsToSelection` |
| `BatchImplemented` | `Spec => ImplementsBatch` |
| `OrphansAreFaults` | `Spec => []OrphansNeedFaults` |
| `ResultsMatch` | `Spec => []ResultMatchesTable` |
| `RunsAreComplete` | `Spec => []RunIsComplete` |
| `HoldsPromptly` | `Spec => []HoldIsPrompt` |
| `StageIsSettled` | `Spec => []StageSettles` |
| `StatusIsFinal` | `Spec => []StatusResultIsFinal` |
| `ExportsAreWhole` | `Spec => []ExportIsWhole` |
| `LifecycleTypes` | `Spec => []TypeOK` of `Lifecycle` |
| `FilesNameTheOwner` | `Spec => []RecordsAreCurrent` |
| `TheServingAreFound` | `Spec => []ServingIsFound` |
| `NoCleanerIsInTheWay` | `Spec => RefusedByDaemon` |
| `StartsWork` | `Spec => EnsureWorks` |
| `StopsWork` | `Spec => StopWorks` |
| `GenerationTypes` | `Spec => []TypeOK` of `Generation` |
| `Promptness` | `Spec => []StopsPromptly` |
| `CleanClose` | `Spec => []LeavesNoProcess` |
| `NoBlankText` | `Spec => []BlankIsAnError` |
| `RetriesOnly` | `Spec => []RetriesWhatMayPass` |
| `NotesAreInOrder` | `Spec => []NotesInOrder` |
| `AnswersAreFinal` | `Spec => []AnswerIsFinal` |
| `WindowTypes` | `Spec => []TypeOK` of `Window` |
| `NeverBack` | `Spec => StatusNeverGoesBack` |
| `AnswersAreOwn` | `Spec => []ActionIsAnswered` |
| `PagesTypes` | `Spec => []TypeOK` of `Pages` |
| `PreviewsFit` | `Spec => []PreviewFits` |
| `ExportsAsShown` | `Spec => []ExportAsShown` |
| `NoModelIsForeign` | `Spec => []NoForeignModel` |
| `NoDraftLeaves` | `Spec => []DraftsStayOnThePage` |
| `NoLostSave` | `Spec => []SavesSurvive` |
| `JobsRunAsSent` | `Spec => RunsAsSent` |

The argument, proof module by proof module.

### The daemon

`ProductTableProofs` says of each statement that it makes a table of the same length out of a table (or a longer one, for an insertion).
`DaemonTypeProofs` lifts this to the outcomes of database calls and from there
to every step. The first part of `DaemonProofs` says of each statement what it
makes of a table of sound rows: a write of one row keeps it sound if the row
had no text and the new text is for its data; accepted corrections touch failed
rows only; and so on. `RowsConsistent` is not inductive, since whether the
thread's next write meets these conditions depends on what the thread remembers.
The inductive invariant is

    IInv == TypeOK /\ RowsConsistent /\ WorkIsCurrent /\ JobKeepsToSteps

`WorkIsCurrent` says that the row the thread holds still has the data it read
and no text, or is gone - this survives a reset with and without `--keep` - and
that a retry's product is of its selection. `JobKeepsToSteps` says where a retry
and a replacement can be and that a process that is down has no thread.
The three action properties follow from what each step does to the rows in a
state of `IInv` (`OptimizeEffect`, `ImportEffect`, `NextKeeps`).

`DaemonRunProofs` builds on it. `SInv` adds to `IInv` which steps belong to which
job and to which request; tables of steps (`OptimizeTable`, `ImportTable`,
`OthersTable`) say once what each kind of step does to the rows, the stage, the
result and the places of the two threads. Each property then has one
strengthening, which says what holds at the steps in between:

* `StatusFits`: once a status has seen the worker not busy, it stays so until the
  server's thread goes on, and only the worker's thread writes a result.
* `HoldFits`: behind a pause or a stop, a thread that claimed one product can be at
  its first check again only if it was stopped, which the second check ends.
* `StageFits`: away from a job's steps the stage is that of no job, unless two
  calls failed: the step's and the one that was to repair it; an import's stage
  takes one.
* `ItemFits`: the row the thread holds has the status the thread gave it or found.
  So a step adds at most that row to those in work that nobody works on
  (`Orphans`), and only if its call failed.
* `SelectionFits`: until the selection's iterator is at its end, each pending
  product of the selection is still in it; a loop that was not stopped ends with
  an empty one.
* `CountsFit`: the counts of the job are those of the table, but for the failed
  products a failed call has counted twice (`Slack`).
* `ExportFits`: what is written lies before all that is in scope and not written
  yet, so that the next page, the lowest ids behind the last one, leaves out
  none (`PageIsLowest`, by `LeastNumber`: a set of numbers has a least one). What
  is published is what was in scope. `PublishFits` says at which steps the
  destination is still the file before, and that a failed call lies behind every
  error of a job that has replaced it.

`BatchImplemented` is the refinement: the shown batch of an initial state is
`Batch`'s own, and each statement on the table, so each step, is a step of `Batch`
or leaves what is shown (`Works`); claiming, interrupting and orphaning are the
stutters, the halves of a reset its `Clear` and `Reopen`.

### The lifecycle

`LifecycleProofs` is about `Lifecycle` in the same way. `RecordsAreCurrent` is
not inductive: whether the file a daemon writes next names the owner depends on
who owns the directory at that place of its code, and whether the file it
removes is its own on what it remembers to have written. `Ownership` adds both:
a daemon has `pdo.lock` exactly between its acquisition and its release, a
client exactly within its clean-up (`HoldsByPhase`); a daemon's `wrote` follows
its phase (`WroteByPhase`); who lives is named only by what it wrote itself and
did not remove yet (`NamedByItself`), and stays named until its service ends
(`StaysNamed`). The proof has three kinds of steps: a daemon's own (`OneSteps`),
those of a client that leave every process where it is (`OthersStay`), and the
removals of a client that has the lock (`CleansKeeps`). `NoCleanerIsInTheWay`
needs one more invariant, `Exclusive`: `launch.lock` is with the client that is
within its command, and only such a client waits for a child. A client that
cleans up and one that waits would both have `launch.lock`; and no step of a
client refuses a daemon the directory (`ClientRefusesNobody`).

`StartsWork` and `StopsWork` are about whole commands: what they achieve depends
on everything they met since they took the lock. `Calm` says it place by place for
the clients nothing disturbed (`FindsAt`): where a command has found nobody,
nobody lives, since no other client may launch and nobody starts by hand; where it
has read a PID or connected, that process is the only one that lives, and answers;
a child it launched is alone and on its way to serve (`GoesWell`), with a report
only when it does; and the places of failures cannot be reached. There is a lemma
for each place (`LockFinds`, `ProbeFinds`, `LaunchFinds`, ...), each a step further
in the command, and `CommandAchieves` for the last.

### Generations and sessions

`GenerationProofs` needs a small invariant for each property. `Prompt` says where
a message may have been taken too late: only between the take and the next look,
which then ends the wait, before a write it has led to or behind it, so no step
takes a second one. `Clean` ties the
processes to what the reader and the caller have seen: a reader that has come to
the end of the output has seen both processes gone, and from the join on the main
process is reaped. `NotBlank` carries the text from the session over the draft to
the result. `Counted` says that the failures of the current call are one less than
its attempt and, for OpenAI, that all of them may pass. The type invariant is
proved from `Typed`, with `Clean` and `Counted` for the processes and attempts.

`NotesInOrder` is about two queues, a pipe and a reader between them, from which
the notifications are to be picked. `NotesFit` says that what was heard, followed
by the notifications still under way, is what was sent. The lemmas about `Notes`
say what it makes of an appended, a taken and a skipped message. `AnswerIsFinal`
follows from that order and from the protocol the server keeps to (`Protocol`:
requests and replies carry the number of their time, so the one the caller waits
for is answered by its own reply, and a turn begins once): `Spoken` says
that the text the caller keeps is the last final one among those it heard, and
that nothing of a turn is sent after its end (`EndsLast`); `Concluded`, that what the caller
answers is then the last final one of all.

### The window and its pages

`WindowProofs` has two arguments. `Current`: an answer in the pool whose generation
is the current one is not older than the status that is shown; a request made
in the window's own thread raises the generation before it applies its status.
`Asked`: every status that can still end the pending action - on its way, held
between two of its requests, or kept under a dialog - answers it, that is, shows
its job or a later result unless the daemon has restarted, and a question that may
start an action is on top of the stack (`Tidy`).

`PagesProofs` has one for each property as well. `Previewed`: fresh previews on
their way are for the format and scope of the page, and a file dialog remembers a
format and a scope that was shown with it. `Kept`: unless two saves met, what a
request or a command has read is still the file, and what it saved is in it; it
rests on `MergeTwice`, that merging settings again changes nothing. `Left`: away
from the settings page the controls are those of the configuration that was
loaded last; its lemmas say of each change of a control in `Form` which others it
leaves alone, and `LoadIsFresh` that loading a configuration forgets what was
typed. `NoDraft` adds the model: `LoadUnpicks` says that loading takes back a
choice from the list, but a local server's without a saved model, for every set
of names that may be offered. `Typed` adds that configurations and what is sent to be saved hold values of
the settings' kinds. `Belong` carries `NoForeignModel`: every model the page shows,
has kept for another access or holds as typed has an origin that permits sending it
(`Fits`), and a check that is not stale asks with what the page has now
(`Checking`). It has one lemma for each change of a control in `Form`, and `Asked`
ties a request to the page it was made from.

### What proving found

The properties held on the instances TLC checks. Attempts to prove them showed
where that was too little:

* `NoForeignModel` as it stood was false, but only after 13 gestures, with the
  pages' run at four: see the models that stay, above. It now names the exceptions,
  in auxiliary variables, and the command line sets the key as well.
* A malformed line of one Codex session could be read in the next one: an error of
  the model, whose pipe now ends with the session (`Forget`). `NotesInOrder` lost
  an exception it no longer needs, that of a reader that failed.
* `Proceed` and `Pong` were written as `CASE` with arms that overlapped, where TLC
  takes the first one and the logic any; both are exact now.
* `Notes` is a recursive function in place of `SelectSeq`, of which the prover knows
  nothing.

## What is only model-checked

* Liveness (`JobsEnd`, `StopsEnd`, `CommandsReturn`, `StoppedEnds`, `UsesEnd`,
  `PendingIsSettled`, `HiddenIsReachable`): the prover has no rules for fairness
  and `ENABLED`.
* That `ResetStopsAll` and `EnsureStarts` are violated: counterexamples.

## What is not modelled, and the plan

* The wire protocol's framing, authentication and size limits
  (`protocol/messages.py`), and answers that come after a client's ten seconds:
  the models have requests that fail or time out, with or without an effect.
* `optimize --watch`: a loop over statuses that writes nothing.
* CSV detection and parsing, the optimizer registry, model discovery of the
  HTTP services, prompts: pure functions and tables over text; the tests
  have them.
* The D-Bus service of the Linux tray: `Window` has what it does to the window.
* The results table's paging and search, controls and layout of the desktop.
* Windows and macOS variants of signals, locks and start markers, daemons of
  before the TCP endpoint, migrations of old databases.
* Packaging and build scripts.

Next, in this order: a module `Client` with the ten-second deadline, late answers
and the watch, over `Service`; the results table's requests in `Window`; that
`Service` is an abstraction of `Daemon`, so that what `Window` relies on is shown
of the daemon and not read off its code a second time.
