# LinuxGuard in TLA+

LinuxGuard is a host security agent in Go. This directory holds TLA+ models of its
concurrent core, TLC configurations that check them on small instances, and TLAPS proofs of
the properties that should hold whatever the sizes. Source references are relative to the
root of the repository.

Check a model with `tlc -config MCHub.cfg MCHub`, a proof with `tlapm AgentProofs.tla`.
`PROJECT.json` lists components, runs, the mapping of definitions to source lines, hazards,
findings and theorems in machine-readable form.

## 1. The system

```
 fsnotify --> filesystem.Monitor --+                       +--> detection.Engine.ProcessEvent
 /proc -----> processes.Monitor ---+--> events.Manager ----+        |  InsertEvent    |  alert
 HTTP ------> BaselineEngine ------+    (a goroutine per   |        v                 |
                                        listener call)     |     SQLite  <-- GetThreats
                    ^                                      |                          |
                    +------------------- alerts (Publish) -|--------------------------+
                                                           +--> api.Hub --> WebSocket clients
```

| component | state | operations | interaction |
|---|---|---|---|
| `internal/events` Manager | list of listeners | Subscribe, Publish | calls every listener in a goroutine of its own |
| `internal/detection` | list of rules | Evaluate, ProcessEvent | listener of the Manager; stores through `database`, publishes alerts to the same Manager |
| `internal/database` | tables events, baseline_files, quarantine, files; a mutex | Open, Close, InsertEvent, GetEvents, GetThreats, baseline and quarantine records | called by the engine, the baseline and the handlers |
| `internal/agent` | the parts above | NewAgent, Start, Stop, RunUntilSignal | owns every other part |
| `internal/filesystem` monitor | watched directories, fsnotify watcher, context | Start, Stop, addRecursive, eventLoop | publishes file events |
| `internal/filesystem` baseline, scanner, hash | none but the table | CreateBaseline, CheckBaseline, ScanDirectories, GetFileMetadata | called by HTTP handlers, publishes drift |
| `internal/processes` | known PIDs, ticker, context | Start, Stop, loop, checkProcesses | publishes PROCESS_STARTED |
| `internal/api` hub | clients, bounded channel | ServeWS, Run | listener of the Manager, writes to clients |
| `internal/api` server, handlers | none | Start, Stop, REST handlers | reads the database, runs the baseline |
| `internal/api/web` dashboard | what the page shows | fetches, WebSocket with reconnection | client of the two above |
| `internal/config`, `internal/system` | none | LoadConfig, GetSystemInfo | read once, or on request |
| quarantine, command line | not in the repository | | `internal/quarantine` and `cmd/linuxguard` are matched by `.gitignore` |

### What is hard here

* *No order.* Each listener call is a goroutine. Two events, and the engine's and the hub's
  treatment of one event, interleave freely.
* *A feedback loop.* The engine publishes its alerts to the Manager it listens to, so it
  judges its own alerts, with a file system that has moved on.
* *Swallowed failures.* The errors of InsertEvent, of SaveBaselineRecord and of a failed poll
  are dropped; what a walk cannot read is skipped without a word.
* *Shutdown.* Stop waits for the monitors, up to 3 seconds for handlers, and not at all for
  the goroutines that are judging events, and then closes the database.
* *Back pressure.* The hub's channel has 100 places, its senders block without bound, and one
  client that does not read blocks the hub.
* *Long jobs without locks.* Baseline jobs overlap with each other and with changes of files.
* *Stale identity.* Processes are compared by PID, files are looked at several times, and a
  directory counts as watched by its path while its watch belongs to the directory itself.
* *A walk that races the tree.* A directory is read before it is watched; what is made in
  between is in neither. The kernel's queue overflows, its watches run out.
* *Overlapping requests.* The page fetches again on every message, answers come in any order,
  and a message may overtake the storing of its event.
* *Restart.* The service is started again after a crash and finds the table as it was left.

### What makes each component correct

* Detection: the tests for a threat agree; an alert never outscores its event; more evidence
  never lowers the severity.
* Pipeline: every event the engine hears is stored once, or known to be lost; every alert
  reports a recorded threat, once; threats and alerts agree in the end.
* Agent: nobody misses an event, no monitor outlives the database, nothing is lost while
  the agent runs, a signal ends it.
* Hub: no event is dropped or repeated; each client gets a contiguous part of the feed.
* Baseline: no false alarm from a baseline that was made and read whole, and right answers
  about files that hold still and can be looked at.
* Process monitor: what lives long enough is announced, once, and nothing old is.
* Filesystem monitor: what ought to be watched and is not has a known reason, no watch is
  outside, each event is published once and in order; both monitors are loops that can be stopped.
* Scanner: each file that can be reached comes back once per monitored path above it, and only
  if not excluded.
* Dashboard: a page at rest shows what the table holds.

## 2. Modules

| module | models | proofs |
|---|---|---|
| `Detection` | rules, score, severity, the alert of an event (no variables) | `DetectionProofs` |
| `Judgement` (extends `Detection`) | one event, judged while its file changes | `DetectionProofs` |
| `Ledger` | abstract: what the pipeline promises | |
| `EventPipeline` (extends `Detection`, instantiates `Ledger`) | Manager, ProcessEvent, the events table | `EventPipelineProofs` |
| `Agent` (extends `EventPipeline`) | the life of the process around the pipeline | `AgentProofs` |
| `Feed` | abstract: what the live feed promises | `DashboardProofs` |
| `Hub` (instantiates `Feed`) | the WebSocket hub | `HubProofs` |
| `Baseline` | baseline jobs, the table, changing files, crash and restart | `BaselineProofs` |
| `MonitorLoop` | abstract: a monitor loop that can be stopped | |
| `ProcessMonitor` (instantiates `MonitorLoop`) | polls of a process table that changes meanwhile | `ProcessProofs` |
| `Scanner` | clean paths, exclusion, what a scan returns (no variables) | `FsMonitorProofs` |
| `FsMonitor` (extends `Scanner`, instantiates `MonitorLoop`) | walks, watches, the event loop, a tree that changes meanwhile | `FsMonitorProofs` |
| `Dashboard` (extends `Feed`) | the overview page, its requests and its connection | `DashboardProofs` |

`MC<module>` extends a module with the values TLC needs. Operators marked "Fault for the
mutation runs" are wrong variants of the definition that follows them; no specification uses
them. They show that each property can fail.

### Detection

A path is a model value and `Traits[path]` the outcome of the string tests of `rules.go`.
Each of the three rules that call `os.Lstat` gets an answer of its own, since the file can
change between the calls. `FileKinds` distinguishes the mode bits the rules look at; for
Lstat a directory carries execute bits and a symbolic link the mode 0777. `Score` is a sum of
five terms and not a fold, so that the module can be proved about. An event's reasons,
description, identifier and time are left out; the event's PID and process name play no
part in any rule. `Judgement` holds one event and what Lstat answers each rule about it; a step
is a change of one answer. Its properties relate the findings before and after such a step, and
the findings of an event to those of its alert.

### EventPipeline

`published` is the list of all Publish calls; an event's number replaces its identifier. The
stages of `ProcessEvent(n)` follow the code: *spawned* by Publish, *assessed* after Evaluate
(with Lstat answers chosen anew for each event, alerts too), *recorded* after InsertEvent
where an alert is due, *done*. `Record` stores the event or, when the database is closed or
fails (`InsertMayFail`: a full disk, a busy database, two identifiers that collide), drops
it into the history variable `lost`. `Alert` publishes, so it starts ProcessEvent once more.
`parent` is a history field: the event an alert is about. Quarantine events are missing, for
the package that would publish them is. `Ledger` is the pipeline without goroutines and stages:
events are heard, settled (a row or a loss) and, if they are threats, reported.

### Agent

`main` is the place of the main goroutine in NewAgent, Start, RunUntilSignal and Stop, with
each failure return as an action. `fsLoop` and `procLoop` are the two monitor loops: *idle*
in select, *busy* handling. `cancelled` holds the contexts Stop has cancelled; a select that
finds both a cancelled context and an event may take either. Handlers are counted; a handler
may publish what a baseline job publishes, with the severity the code gives to each type. A
connection accepted before Shutdown may bring its request later, so handlers start until the
process is gone.
Every action is a step of `EventPipeline` or leaves its variables alone, which TLC checks
(`PipelineSpec` as a property of `AgentSpec`) and `AgentProofs` proves.

### Hub and Feed

`senders` are the listener goroutines that have not got into the channel, `pending` the
clients Run has still to write the current event to. A peer reads, stalls (its write blocks)
or is gone (its write fails, or succeeds into a socket that does not know yet). The case
`<-h.unregister` of Run is left out, since nothing ever sends to that channel. `Feed` is the
promise: one log; a client that joins sees all that follows, in order and without gaps.
The mapping takes a client out of the feed when its peer leaves, not when Run notices.
`FeedPromise` is what a reader may conclude from `Feed`: nothing is logged twice, and a client
is one event behind at most.

### Baseline

A *job* is one request. CreateBaseline clears the table, lists, reads and hashes each file,
and saves row after row; CheckBaseline reads the table, scans in the same way, compares and
looks once more at each file that is missing. Every statement on the table is atomic under
the mutex of `database.DB`; nothing else is. A file is hashed in one step: what a torn read
gives concerns a file that changes meanwhile, about which no property speaks. Walk lists one
directory at a time; the files of the model are those of one directory. The order of
the files is arbitrary. The events a check publishes are the entries of its lists, one each,
and come into the pipeline as observations of `Agent`. `MaxFailures` calls may fail. The first
statement of a job fails and ends it (`StatementFails`); a save fails and is skipped; reading the
table breaks off in the middle, which goes unnoticed, for `rows.Err` is not asked
(`GetBaselineRecords` with `lost` rows); a file that is there cannot be looked at and is left out
(`SkipFile`), cannot be hashed and has an empty hash (`HashFails`), or cannot be looked for again
and is not reported (`LookAgainFails`). A directory that cannot be read is all its files skipped.
Exclusion and overlapping monitored paths are in `Scanner`. `Crash` ends the process between two statements, whatever the jobs are
at; the table stays, for each statement is a transaction of SQLite. `OpenAgain` is the restart
by systemd (`Restart=on-failure`): migrations find their tables and change nothing. History
variables (`owner`, `whole`, `quiet`, `calm`, `still` and others) record what the properties
need to know of the past; a crash in the middle of a create ends `whole`, for what it leaves is
a part of a baseline that the code cannot tell from a whole one. A failed call of the create
ends it, too. `still` holds the files that have not changed since the check read the table and of
which no look has failed. `CheckIsRight` is about these; `NoFalseAlarm` is about all files that
have not changed since the create, whether or not the check could look at them.

`RightAnswer` says what an answer promises of a modified file, in terms of its content: what is
reported has another content than the one in the row, and what has another content is reported if
it can be opened and could be when its row was made. The documents promise more (see below).

### ProcessMonitor

Processes are numbered by their start, PIDs are reused. A poll reads the PIDs in one step
and the details of each process in another; a process gone by then has empty details (0).
A failed poll changes nothing. `MonitorLoop` is what Agent relies on in `procLoop` and
`fsLoop`: idle, busy, exited, and cancellation heeded only between two events. Both monitors
implement it (`ProcImplementsLoop`, `FsImplementsLoop`), so the composition in `Agent` needs
nothing else of them.

### Scanner and FsMonitor

A clean absolute path is the sequence of its names; configured paths may be relative and hold
"", "." and "..", and `Cleaned` does what `filepath.Abs` does. `ScanDirectories` pairs each
file with the monitored path whose walk returned it, since a file below two of them comes back
twice. `Visited` is `filepath.Walk`: what is reached from the root through directories that are
not skipped and can be read, that is, what has only such directories on the `Way` from the root
to it. `failing` holds the paths of which Lstat or, for directories, reading fails: nothing comes
back from them or from below them.

In `FsMonitor` the tree changes at any moment. A watch belongs to the object at a path and goes
with it (`watched`), while `watchedDirs` holds paths and is never purged: that is the code. A
walk is step by step: `Visit` looks at a path and reads the names in it, `AddWatch` is the
callback and comes later, and between the two the tree may change. When the directory cannot be
looked at or read, `VisitFails`: the callback is called with the error and does nothing, so there
is no watch and nothing below is visited. `PublishUnread` is the same of the Lstat with which the
loop looks at a new path, and `AddFails` a watch the kernel refuses for another reason than its
limit. `MaxFailures` bounds the three. Starting is walking the
roots and then starting the loop; a new directory makes the loop walk before it publishes. The
kernel's queue holds `QueueCapacity` events, then an overflow (which reaches the code as an
error and is ignored) and nothing more until there is room; beyond `WatchLimit` adding a watch
fails. `noticed` (all that was ever put into the queue, in order), `missed`, `unwatched`,
`refused` and `unread` are history. `missed` is narrow: a path that came without an event of a
watched directory (the queue was full), into a directory that had been read and was not watched
yet, or in the place of a root, while no walk had it before it; a walk that visits it takes it
out. A loop that only called `watcher.Add` for a new directory would leave what is in it neither
watched nor `missed`, and `BlindSpotsAreKnown` fails of it (the mutant `AddWatchAlone`). Left out:
renames of directories, links made at run time, and the second channel for errors, whose order
relative to the events no property depends on. Events the kernel drops are not in `noticed`:
`EachEventIsPublishedOnce` is about those it has queued.

### Dashboard

The page sees the hub only through `Feed`, which the hub implements. Events are numbered by
their timestamps, so the newest are the largest; `stored` is the table. A call of
`fetchOverview` is a pair of requests, each answered at a moment of its own with the newest rows
at that moment or with an error, and rendered when both are answered; calls overlap, and any
may be rendered last. A message and its `onmessage` are one step. `eventsFrom` and
`threatsFrom` say which call the page's parts come from. The third request of a call
(quarantine) is left out with its counter, for nothing else depends on it. A connection that
cannot be made counts for nothing: the page tries again any number of times (`ConnectFails`).

## 3. Runs

| run | instance | shows |
|---|---|---|
| `MCDetection` | 7 paths, all types, 5 kinds of file | the two thresholds agree, alerts never outscore, severity is monotone |
| `MCEventPipeline` | 3 events, 3 observations, failing insertions | accounting, alerts, agreement of threats and alerts in every interleaving; what is heard ends recorded or lost, threats end reported |
| `MCAgent` | 3 events, 1 handler, both monitors | order of construction and shutdown; the agent implements the pipeline; a signal ends it |
| `MCHub` | 2 clients, channel of 1, 3 events | accounting, contiguous feeds, refinement of `Feed`; the channel drains, connections get registered |
| `MCBaseline` | 2 files, 2 jobs at a time, 3 in all, 1 change, 1 crash, 1 failing call, 2 contents, 2 modes | no false alarm, right answers, before and after a crash, whichever call fails |
| `MCProcessMonitor` | 2 PIDs, 4 processes | survivors announced, once, nothing old; the loop |
| `MCFsMonitor` | 5 paths, 2 roots one below the other, 3 changes, 1 failing call, queue of 2, 2 watches, 3 initial trees | blind spots have reasons, watches stay inside, events published once, scans right; the loop; the monitor comes to rest |
| `MCDashboard` | 2 events, 2 calls under way, 2 connections and any number of failed attempts, limits of 1 | a page at rest is current; a dropped page comes back |

Bounds. `MaxEvents = 3` holds an observation, its alert and the alert's echo, or two
independent observations and an alert: the properties relate at most two events and their
parents. Without a bound the pipeline need not end, since a file that keeps looking dangerous
makes the engine alert about its own alerts. The three observations trigger each rule and,
with the two Lstat answers, scores below, at and above every threshold. The hub has more
events than its channel has places, so senders block; two clients suffice since clients share
nothing but the channel and Run. Two overlapping jobs are the case where baselines go wrong,
and three in all make a creation, a second one and a check; the change falls before, between,
during or after any of them, and the other file holds still; one crash falls anywhere, a second
meets nothing that the first does not; one call fails, of any kind, since no code looks at two
failures together. Files start absent or with one
content, and any state is reached by a change. Four processes on two PIDs let a PID be reused
twice. `MCFsMonitor` needs three changes to remove a directory, make it again and put something
into it, or to make a directory, one in it and one in that; three directories that want watches
against a limit of two; and a queue that a rename (two events) and one change more overflow.
Its trees include a root that is a link and one that is absent below the other; the configured
paths are relative or not clean. One look at a directory or one watch fails, at any place of any
walk. `ScanFindsEachFile` is checked on every tree the run reaches, for no depth limit and limits
of 1 and 2, with every path failing in turn. In `MCDashboard` there is one event, and one threat,
more than the page has room for; two calls are enough for one to overtake the other. The
symmetries are permutations of jobs, of the files of a baseline and of PIDs, none of which
is singled out by a constant or a CHOOSE; only runs of safety properties use them.

`CHECK_DEADLOCK FALSE` is set throughout: each model has an end that is meant (a terminated
agent, all events used up, all jobs answered).

Fairness. Goroutines that can run do run: weak fairness of ProcessEvent, of Stop and of what
a loop does with an event. A select with a cancelled context is not biased, so the exit of a
loop that is possible again and again happens: strong fairness. Senders in a channel are
served in turn, a registration too: strong fairness. `FsMonitor` assumes the same of its loop:
strong fairness of taking an event and of the exit, weak fairness of what the loop does, and
nothing of the tree. `Dashboard` assumes that timers fire, that each request is answered or
fails, and that a server that is there again and again accepts a connection (strong fairness
of `Connect`). Nothing is assumed of HTTP handlers, which is why Shutdown needs its timeout. `MCHub` assumes of peers that they do not stall
for ever (they read on or leave); this is an assumption about the environment, and
`DocEventsArePushed` shows what happens without it: there only the program is fair.

### Disagreements found

Each is a run that is expected to fail, with the property that states what is documented.

| run | the document says | the code does |
|---|---|---|
| `DocStopKeepsEvents` | "terminated safely" (agent.go:144) | events being judged at Stop are lost |
| `DocEventsArePushed` | pushed in real time (README.md:74) | a stalled client blocks all |
| `DocBaselineIsSnapshot` | a create snapshots the files (baseline.go:36) | two creates leave a stale row |
| `DocNewDirectoriesAreWatched` | recursive directory listening (ARCHITECTURE.md:63) | a directory removed and made again is not watched |

Disagreements that follow from a definition by reading it have no run: a score of 0 is INFO
and LOW is never given (README.md:124 gives LOW to 0-29; `LowIsNeverUsed` is proved); a changed
crontab scores 50, MEDIUM (THREAT_MODEL.md:12 says critical); the rule for hidden executables
flags hidden directories and symbolic links (README.md:119).

A scan with a depth limit of n returns files n+1 levels below the root, for the limit stops at
directories only and the root counts as one level (scanner.go:54 has "up to maxDepth",
README.md:83 "recursion depth bounds"); it returns a monitored path that is a symbolic link, and
sockets, pipes and devices at any place, as files (scanner.go:54 has "each valid regular file");
and what it cannot read it leaves out without telling (scanner.go:76), so that "each" is of what
can be read. `ScanFindsEachFile` bounds the excess, excepts the link and what fails, and calls all
that is neither directory nor link a file. A check reports a file as modified by its hash alone:
size is stored and never compared, a changed file that cannot be opened is not reported, and one
that could not be opened when the baseline was made is reported as soon as it can be, changed or
not (README.md:91 has "files whose SHA-256 or size has changed"; baseline.go:118).
`RightAnswer` excepts these two cases.

A check that overlaps a creation
reports unchanged files as new (README.md:90), which is why `NoFalseAlarm` asks for a baseline
no create was writing; and a process that gets the PID of one that has just exited is not
announced (README.md:98), which is the exception in `SurvivorsAreAnnounced`. The engine judges
its own alerts, which may cause further ones (README.md:60 has a strict lifecycle), and the alert
about a sensitive file is itself stored as a THREAT_DETECTED row of score 0 (engine.go:82 says
"if high score"); `EchoesDropTheChange` is about these. On the page the total of events is the
number of rows fetched, 10 at most (app.js:80), and the risk level looks at the newest five
threats only (app.js:90): `RestingPageIsCurrent` speaks of those.

## 4. Proofs

All theorems hold for every value of the constants that satisfies the named assumptions, which
give the constants their types and say little more: observations are events of a type other
than THREAT_DETECTED (`PipelineAssumption`, with `TraitsAssumption`, `LstatAssumption`,
`AgentAssumption`, `HubAssumption` and `ProcessAssumption`); no content is "" and no permission string "norow"
(`BaselineAssumption`); monitored paths are among the paths of interest, which do not include
"/" and hold the directories on the way to each of them, which are there in the initial trees as
in any file system (`FsAssumption`); events are numbered by naturals, and there are finitely many
(`DashAssumption`).

* `DetectionProofs`: a score is 0 or at least 30 (`ScoreRange`, from the points of the five
  rules), hence the two threat tests agree and LOW is never used. `MoreFindingsScoreMore`: a
  larger set of findings has no lower score, though the sum is capped; with it, an alert, whose
  findings are among those of its event (`AlertsAddNothing`), never outscores it, and a file that
  shows more is never judged milder.
* `EventPipelineProofs`: type correctness needs that stages are set only for events that are
  published (`TypeInv`). `EveryHeardEventAccounted` is inductive on top of it. That alerts are
  backed is not: a new alert is unique only if no earlier alert has its parent, and nothing
  says so before it is published. `AlertInv` adds that alerts are exactly about the threats
  whose ProcessEvent is done, and `FindingsFollowStage` that an alert due is for a threat.
  `PipelineInv` is their conjunction; `QuietPipelineAgrees` and `EchoesAreNoChanges` follow
  from it, the latter with an induction step over Assess that looks at the type of an alert.
  `PipelineRefinesLedger` maps each step: Publish lets the engine hear, Record settles, Alert
  reports. What `Ledger` adds to the invariants is about steps: no row is ever changed or
  removed, and no report is made before the record.
* `AgentProofs`: each step of the agent is a step or a stutter of the pipeline, so everything
  above holds of the agent. `MainInv` ties the place of the main goroutine to the database,
  the subscriptions, the loops and the handlers; from it follow that nobody misses an event,
  that monitors end before the database, and that nothing is lost before Stop ends. `LoopInv`
  says which loops run and which are cancelled at each place of Stop: from it the agent runs both
  loops as `MonitorLoop` has them (`AgentRunsTheLoops`, the other side of `FsMonitorIsLoop` and
  `ProcessMonitorIsLoop`), and never waits for one that cannot end (`StopWaitsForWhatCanEnd`, the
  part of `SignalEndsTheAgent` that is a matter of safety).
* `HubProofs`: three inductive invariants. `TypeInv` adds to the types that Run writes only
  while there is an event in the log. `FeedInv` states contiguity by
  positions (the i-th event a client got is the one i places after its registration), for
  `SubSeq` says nothing of how it grows, and that an unregistered connection has been sent
  nothing. `PlaceInv` is `EveryEventInOnePlace` with the fact it lacks: senders, channel and log
  are disjoint and nothing is in the channel twice, or Take could log an event a second time. The
  refinement of `Feed` follows, step by step, from the last two. With `LogOnce`, which needs
  `PlaceInv` for the same reason, the hub keeps `FeedPromise` and sends no client an event twice.
* `ProcessProofs`: `ProcessInv`. That survivors are announced is decided when a poll ends, from
  what it listed and read before: `Polling` says whose details a poll in progress has, `Settled`
  that whoever holds a PID of the last poll has been dealt with. A PID reused in between is in
  `recycled`, and the two parts fail without it.
* `BaselineProofs`: `BaselineInv`. For each job, `JobOK` says which of its variables are in use
  where it is. `CheckOK` follows the files that hold still through a check: what the scan has
  (`Scanned`), and what the comparison makes of them before the second look (`Compared`). Of a
  file that a look may have failed at, less is known: `Harmless` says that it is found as the
  table has it, without its hash, or not at all, none of which is reported.
  `CreateOK` says the same of a create that nothing disturbs, up to a table half saved, and
  `TableOK` of the table it leaves (`WholeCreateIsSnapshot`: what `DocBaselineIsSnapshot` refutes
  is true of a create without another beside it). The crash is one more step: it ends every job and makes
  nothing whole that was not.
* `FsMonitorProofs`: `FsInv`. `BlindSpotsAreKnown` is not inductive: `AddWatch` makes every
  directory below a new watch one that ought to be watched. `NoBlindSpot` therefore asks the same
  already of what is in a directory that has been read and has no watch yet: it is among the
  names, or came since and is in `missed`. A look that fails moves a directory from what is to be
  visited to `unread`, and a refused watch to `refused`: nothing below either
  ought to be watched but a root, which has a walk of its own. `AllBelow` (everything in hand is below a root)
  gives `WatchesStayInside`. `EventsArePublishedOnce` has an invariant of its own, `PublishInv`:
  with the position of the loop in the history `noticed` it says by positions what is published,
  in hand and queued, so that one more event in the queue, and one more that the loop is done
  with, each move one position. `ScansAreRight` rests on `TreeInv`: whatever is made and
  removed, what is there has directories above it up to each root (`CanHoldFacts` for what is
  made, `EmptyFacts` for the directory that is removed). With it the walk reaches every file:
  `WayFacts` says that the way to a path is the way to its parent and the parent, `ExcludedBelow`
  that a file which is not excluded has no excluded directory above it, and `ScanRootFacts` is
  the result for one root, any limit of depth and any paths that fail.
* `DashboardProofs`: `DashInv`. The page has heard of an event (`Heard`) when its message came
  after it was stored; nothing is added to `Heard` but by `Receive`, which makes a call that is
  newer than any answer. `LastCallKnows` and `PageKnows` say that what is heard and among the
  newest is in the answers of the last call, and on the page if it shows them. `NewestOfFewer`
  and `NewestAreAll` are the facts about the newest rows of a growing table this rests on; they
  need a largest element of a finite set, which comes from the well-foundedness of the strict
  subset relation. `FeedKeepsItsPromise` is about `Feed` alone, and `PageUsesTheFeed` says that
  the page takes part in it by steps of `Feed` only.
* Both monitors implement `MonitorLoop` (`ProcessMonitorIsLoop`, `FsMonitorIsLoop`), by the step.

Only model-checked: the liveness properties, since fairness and ENABLED are beyond TLAPS
(`EveryHeardEventEndsRecorded`, `EveryThreatIsReported`, `SignalEndsTheAgent`,
`EveryEventIsBroadcast`, `EveryUpgradeIsRegistered`, `MonitorComesToRest`,
`DroppedPageComesBack`). Every type invariant, safety invariant, action property and refinement
that a run checks is proved as well. Only evaluated by TLC on the configured paths: what
`Cleaned` makes of a path, which is a fold and would need induction over its names. Only proved,
for their instances hold by the theorem and no run checks them: `Ledger`, `FeedPromise` and the
two loops in `Agent`.

## 5. Not modelled

* Quarantine and the command line: not in the repository. The quarantine records of the
  database and the three handlers have no caller or callee here to be modelled against.
* Configuration and system information: read once or on request, no state of their own. The
  switches are constants (`DetectionEnabled`, `ProcessMonitorEnabled`, the paths of `Scanner`).
* The tables files and processes, and the records of the container and installation scripts:
  nothing reads or writes them at run time.
* The other tabs of the page, which fetch once when they are opened; toasts and markup.
* Handlers that only read the host (health, system, processes). The one of files is
  `ScanDirectories` with depth 1, which `ScanFindsEachFile` covers.
* A crash in the middle of the pipeline. Nothing recovers there: events in flight are gone as
  they are at Stop (`DocStopKeepsEvents`), and rows are inserted one by one.
* In the models above: what each section of 2 names as left out.

## 6. What could come next

1. The composition of `FsMonitor` with `EventPipeline`, instead of through `MonitorLoop`: which
   of a burst of events of one file lead to one alert, with the real state of the file as the
   answer of Lstat.
2. Quarantine, when its package is in the repository: the file is moved and its record written
   in two steps, and a crash between them is the case to look at.
