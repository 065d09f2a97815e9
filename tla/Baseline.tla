------------------------------ MODULE Baseline ------------------------------
(***************************************************************************)
(* The file integrity baseline: internal/filesystem/baseline.go, scanner.go*)
(* and hash.go, with its table in internal/database.  Each HTTP request    *)
(* for /api/baseline/create or /api/baseline/check is a job; jobs run at   *)
(* the same time, and the files change under them.  No lock and no         *)
(* transaction spans a job: each statement on the table is atomic, nothing *)
(* more.                                                                   *)
(*                                                                         *)
(* The files are those of one monitored directory.  A file that exists has *)
(* a content and a permission string; one with the permission string       *)
(* "unreadable" cannot be opened, so its hash is empty.  Size, owner and   *)
(* group are stored and never compared.                                    *)
(***************************************************************************)
EXTENDS Naturals

CONSTANTS Files, Contents, Permissions,
          InitialStates,  \* what a file may be at the start of a run
          Jobs,
          MaxRuns,        \* bound on the jobs started in one run
          MaxChanges,     \* bound on the changes of files in one run
          MaxCrashes,     \* bound on the crashes of the agent in one run
          MaxFailures     \* bound on the statements on the table, and the looks at
                          \* files, that fail in one run

ASSUME BaselineAssumption ==
  /\ MaxRuns \in Nat
  /\ MaxChanges \in Nat
  /\ MaxCrashes \in Nat
  /\ MaxFailures \in Nat
  /\ "" \notin Contents
  /\ "norow" \notin Permissions

Gone == [content |-> "", perm |-> "gone"]
DiskStates == [content : Contents, perm : Permissions] \cup {Gone}

ASSUME InitialAssumption == InitialStates \subseteq DiskStates

\* A row of baseline_files, and a FileInfoMetadata; NoRow when there is none.
NoRow == [sha |-> "", perm |-> "norow"]
Rows  == [sha : Contents \cup {""}, perm : Permissions]

VARIABLES
  disk,     \* the monitored files
  table,    \* the table baseline_files
  pc,       \* per job: where it is
  kind,     \* per job: "create" or "check"
  todo,     \* the files the current loop of the job has still to visit
  at,       \* the file the scan is hashing
  found,    \* what the scan has found
  base,     \* the rows the check has read
  diff,     \* the lists of the check; the job publishes an event for each entry
  up,       \* whether an agent process runs
  runs, changes, crashes, failures,
  \* History, for the properties:
  owner,    \* the job that last cleared the table
  whole,    \* no other create has touched the table since, and no call of it failed
  quiet,    \* files unchanged since the table was last cleared
  trusted,  \* per check: the table it read was the whole work of one create
  calm,     \* per check: files unchanged since that table was cleared
  still     \* per check: files unchanged since it read the table, of which no look
            \* has failed

jobVars   == <<pc, kind, todo, at, found, base, diff>>
checkPast == <<trusted, calm, still>>
history   == <<owner, whole, quiet, checkPast>>
process   == <<up, crashes>>
vars      == <<disk, table, jobVars, process, runs, changes, failures, history>>

NoFiles == [f \in Files |-> NoRow]
NoDiff  == [new |-> {}, modified |-> {}, deleted |-> {}, permission |-> {}]

Init ==
  /\ disk \in [Files -> InitialStates]
  /\ table = NoFiles
  /\ pc = [j \in Jobs |-> "idle"]
  /\ kind = [j \in Jobs |-> "check"]
  /\ todo = [j \in Jobs |-> {}]
  /\ at = [j \in Jobs |-> {}]
  /\ found = [j \in Jobs |-> NoFiles]
  /\ base = [j \in Jobs |-> NoFiles]
  /\ diff = [j \in Jobs |-> NoDiff]
  /\ up = TRUE
  /\ crashes = 0
  /\ runs = 0
  /\ changes = 0
  /\ failures = 0
  /\ owner = {}
  /\ whole = FALSE
  /\ quiet = {}
  /\ trusted = [j \in Jobs |-> FALSE]
  /\ calm = [j \in Jobs |-> {}]
  /\ still = [j \in Jobs |-> {}]

Exists(f) == disk[f] # Gone

\* CalculateSHA256, "" when the file cannot be opened.
HashOf(state) == IF state.perm = "unreadable" THEN "" ELSE state.content

Creating(j) == kind[j] = "create" /\ pc[j] \in {"list", "scan", "hash", "save"}

Fails ==
  /\ failures < MaxFailures
  /\ failures' = failures + 1

JobGoes(j, from, to) == pc[j] = from /\ pc' = [pc EXCEPT ![j] = to]

-----------------------------------------------------------------------------
\* A request arrives; its handler starts with the table.
StartJob(j, k) ==
  /\ pc[j] \in {"idle", "done"}
  /\ up
  /\ runs < MaxRuns
  /\ runs' = runs + 1
  /\ kind' = [kind EXCEPT ![j] = k]
  /\ pc' = [pc EXCEPT ![j] = IF k = "create" THEN "clear" ELSE "load"]
  /\ diff' = [diff EXCEPT ![j] = NoDiff]
  /\ trusted' = [trusted EXCEPT ![j] = FALSE]
  /\ calm' = [calm EXCEPT ![j] = {}]
  /\ UNCHANGED <<process, disk, table, todo, at, found, base, changes, failures,
                 owner, whole, quiet, still>>

\* The first statement fails: the request is answered with its error.
StatementFails(j) ==
  /\ Fails
  /\ \E first \in {"clear", "load"} : JobGoes(j, first, "idle")
  /\ UNCHANGED <<process, disk, table, kind, todo, at, found, base, diff, runs, changes, history>>

ClearBaseline(j) ==
  /\ JobGoes(j, "clear", "list")
  /\ table' = NoFiles
  /\ owner' = {j}
  /\ whole' = ~ \E i \in Jobs : Creating(i)
  /\ quiet' = Files
  /\ UNCHANGED <<process, disk, kind, todo, at, found, base, diff, runs, changes, failures, checkPast>>

\* An error in the middle of the rows is not asked for (rows.Err), and what is
\* lost then is not known to be.
GetBaselineRecords(j, lost) ==
  /\ JobGoes(j, "load", "list")
  /\ IF lost = {} THEN UNCHANGED failures ELSE Fails
  /\ base' = [base EXCEPT ![j] = [f \in Files |-> IF f \in lost THEN NoRow ELSE table[f]]]
  /\ trusted' = [trusted EXCEPT ![j] = lost = {} /\ whole /\ ~ \E i \in Jobs : Creating(i)]
  /\ calm' = [calm EXCEPT ![j] = quiet]
  /\ still' = [still EXCEPT ![j] = Files]
  /\ UNCHANGED <<process, disk, table, kind, todo, at, found, diff, runs, changes,
                 owner, whole, quiet>>

\* ScanDirectories: Walk reads the names, then GetFileMetadata looks at each
\* file, first with Lstat and then by opening it.
ListFiles(j) ==
  /\ JobGoes(j, "list", "scan")
  /\ todo' = [todo EXCEPT ![j] = { f \in Files : Exists(f) }]
  /\ UNCHANGED <<process, disk, table, kind, at, found, base, diff, runs, changes, failures, history>>

LstatFile(j, f) ==
  /\ pc[j] = "scan"
  /\ f \in todo[j]
  /\ todo' = [todo EXCEPT ![j] = @ \ {f}]
  /\ IF Exists(f)
     THEN /\ found' = [found EXCEPT ![j][f] = [sha |-> "", perm |-> disk[f].perm]]
          /\ at' = [at EXCEPT ![j] = {f}]
          /\ pc' = [pc EXCEPT ![j] = "hash"]
     ELSE UNCHANGED <<found, at, pc>>
  /\ UNCHANGED <<process, disk, table, kind, base, diff, runs, changes, failures, history>>

HashFile(j, f) ==
  /\ f \in at[j]
  /\ JobGoes(j, "hash", "scan")
  /\ found' = [found EXCEPT ![j][f].sha = HashOf(disk[f])]
  /\ at' = [at EXCEPT ![j] = {}]
  /\ UNCHANGED <<process, disk, table, kind, todo, base, diff, runs, changes, failures, history>>

\* A look at a file fails that is there, or the way to it: what a check says of it
\* is not held against it, and a create is not whole.
LookFails(j, f) ==
  /\ Fails
  /\ still' = [still EXCEPT ![j] = @ \ {f}]
  /\ whole' = (whole /\ kind[j] # "create")
  /\ UNCHANGED <<process, disk, table, kind, base, diff, runs, changes,
                 owner, quiet, trusted, calm>>

\* Walk's own Lstat, or that of GetFileMetadata: the file is left out.
SkipFile(j, f) ==
  /\ LookFails(j, f)
  /\ pc[j] = "scan"
  /\ f \in todo[j]
  /\ todo' = [todo EXCEPT ![j] = @ \ {f}]
  /\ UNCHANGED <<pc, at, found>>

\* CalculateSHA256 fails: the hash stays empty.
HashFails(j, f) ==
  /\ LookFails(j, f)
  /\ f \in at[j]
  /\ JobGoes(j, "hash", "scan")
  /\ at' = [at EXCEPT ![j] = {}]
  /\ UNCHANGED <<todo, found>>

\* The scan of a create ends: it goes on to save what was found.
SavingStarts(j) ==
  /\ kind[j] = "create"
  /\ todo[j] = {}
  /\ JobGoes(j, "scan", "save")
  /\ todo' = [todo EXCEPT ![j] = { f \in Files : found[j][f] # NoRow }]
  /\ UNCHANGED <<process, disk, table, kind, at, found, base, diff, runs, changes, failures, history>>

\* SaveBaselineRecord for one file; an error is skipped.
SaveRecord(j, f) ==
  /\ pc[j] = "save"
  /\ f \in todo[j]
  /\ todo' = [todo EXCEPT ![j] = @ \ {f}]
  /\ \/ table' = [table EXCEPT ![f] = found[j][f]]
        /\ whole' = (whole /\ owner = {j})
        /\ UNCHANGED failures
     \/ Fails /\ whole' = FALSE /\ UNCHANGED table
  /\ UNCHANGED <<process, disk, pc, kind, at, found, base, diff, runs, changes,
                 owner, quiet, checkPast>>

\* CreateBaseline publishes its end and returns.
CreateEnds(j) ==
  /\ todo[j] = {}
  /\ JobGoes(j, "save", "done")
  /\ found' = [found EXCEPT ![j] = NoFiles]
  /\ UNCHANGED <<process, disk, table, kind, todo, at, base, diff, runs, changes, failures, history>>

Both(j)    == { f \in Files : found[j][f] # NoRow /\ base[j][f] # NoRow }
Missing(j) == { f \in Files : found[j][f] = NoRow /\ base[j][f] # NoRow }

\* Faults for the mutation runs: a new file is compared too, with the zero value
\* the map gives for it; an unreadable file counts as modified.
DifferencesNoElse(j) ==
  [ new        |-> { f \in Files : found[j][f] # NoRow /\ base[j][f] = NoRow },
    modified   |-> { f \in Files : found[j][f].sha \notin {"", base[j][f].sha} },
    permission |-> { f \in Both(j) : found[j][f].perm # base[j][f].perm },
    deleted    |-> {} ]
DifferencesAnyHash(j) ==
  [ new        |-> { f \in Files : found[j][f] # NoRow /\ base[j][f] = NoRow },
    modified   |-> { f \in Both(j) : found[j][f].sha # base[j][f].sha },
    permission |-> { f \in Both(j) : found[j][f].perm # base[j][f].perm },
    deleted    |-> {} ]

\* The first loop of CheckBaseline, over the files found.
Differences(j) ==
  [ new        |-> { f \in Files : found[j][f] # NoRow /\ base[j][f] = NoRow },
    modified   |-> { f \in Both(j) : found[j][f].sha \notin {"", base[j][f].sha} },
    permission |-> { f \in Both(j) : found[j][f].perm # base[j][f].perm },
    deleted    |-> {} ]

CompareFound(j) ==
  /\ kind[j] = "check"
  /\ todo[j] = {}
  /\ JobGoes(j, "scan", "missing")
  /\ diff' = [diff EXCEPT ![j] = Differences(j)]
  /\ todo' = [todo EXCEPT ![j] = Missing(j)]
  /\ UNCHANGED <<process, disk, table, kind, at, found, base, runs, changes, failures, history>>

\* The second loop: a missing file is looked for once more.
LookAgain(j, f) ==
  /\ pc[j] = "missing"
  /\ f \in todo[j]
  /\ todo' = [todo EXCEPT ![j] = @ \ {f}]
  /\ diff' = IF Exists(f) THEN diff ELSE [diff EXCEPT ![j].deleted = @ \cup {f}]
  /\ UNCHANGED <<process, disk, table, pc, kind, at, found, base, runs, changes, failures, history>>

\* An error that does not say the file is not there.
LookAgainFails(j, f) ==
  /\ LookFails(j, f)
  /\ pc[j] = "missing"
  /\ f \in todo[j]
  /\ todo' = [todo EXCEPT ![j] = @ \ {f}]
  /\ UNCHANGED <<pc, at, found>>

CheckEnds(j) ==
  /\ todo[j] = {}
  /\ JobGoes(j, "missing", "done")
  /\ found' = [found EXCEPT ![j] = NoFiles]
  /\ base' = [base EXCEPT ![j] = NoFiles]
  /\ still' = [still EXCEPT ![j] = {}]
  /\ UNCHANGED <<process, disk, table, kind, todo, at, diff, runs, changes, failures,
                 owner, whole, quiet, trusted, calm>>

\* Somebody writes, creates, deletes or changes the mode of a file.
FileChanges(f, state) ==
  /\ changes < MaxChanges
  /\ state # disk[f]
  /\ changes' = changes + 1
  /\ disk' = [disk EXCEPT ![f] = state]
  /\ quiet' = quiet \ {f}
  /\ calm' = [j \in Jobs |-> IF pc[j] = "done" THEN calm[j] ELSE calm[j] \ {f}]
  /\ still' = [j \in Jobs |-> still[j] \ {f}]
  /\ UNCHANGED <<process, table, jobVars, runs, failures, owner, whole, trusted>>

\* The process dies, its jobs with it; the table is on the disk.
Crash ==
  /\ up
  /\ crashes < MaxCrashes
  /\ crashes' = crashes + 1
  /\ up' = FALSE
  /\ pc' = [j \in Jobs |-> "idle"]
  /\ todo' = [j \in Jobs |-> {}]
  /\ at' = [j \in Jobs |-> {}]
  /\ found' = [j \in Jobs |-> NoFiles]
  /\ base' = [j \in Jobs |-> NoFiles]
  /\ diff' = [j \in Jobs |-> NoDiff]
  /\ whole' = (whole /\ ~ \E j \in Jobs : Creating(j))
  /\ trusted' = [j \in Jobs |-> FALSE]
  /\ calm' = [j \in Jobs |-> {}] /\ still' = [j \in Jobs |-> {}]
  /\ UNCHANGED <<disk, table, kind, runs, changes, failures, owner, quiet>>

\* Fault for the mutation runs: the tables are made anew.
OpenEmpty ==
  /\ ~up
  /\ up' = TRUE
  /\ table' = NoFiles
  /\ UNCHANGED <<disk, jobVars, crashes, runs, changes, failures, history>>

\* The service manager starts it again, and database.Open finds the tables.
OpenAgain ==
  /\ ~up
  /\ up' = TRUE
  /\ UNCHANGED <<disk, table, jobVars, crashes, runs, changes, failures, history>>

Next ==
  \/ \E j \in Jobs, k \in {"create", "check"} : StartJob(j, k)
  \/ \E j \in Jobs : ClearBaseline(j)
  \/ \E j \in Jobs : StatementFails(j)
  \/ \E j \in Jobs, lost \in SUBSET Files : GetBaselineRecords(j, lost)
  \/ \E j \in Jobs : ListFiles(j)
  \/ \E j \in Jobs, f \in Files : LstatFile(j, f)
  \/ \E j \in Jobs, f \in Files : HashFile(j, f)
  \/ \E j \in Jobs, f \in Files : SkipFile(j, f) \/ HashFails(j, f) \/ LookAgainFails(j, f)
  \/ \E j \in Jobs : SavingStarts(j)
  \/ \E j \in Jobs, f \in Files : SaveRecord(j, f)
  \/ \E j \in Jobs : CreateEnds(j)
  \/ \E j \in Jobs : CompareFound(j)
  \/ \E j \in Jobs, f \in Files : LookAgain(j, f)
  \/ \E j \in Jobs : CheckEnds(j)
  \/ \E f \in Files, state \in DiskStates : FileChanges(f, state)
  \/ Crash \/ OpenAgain

Spec == Init /\ [][Next]_vars

-----------------------------------------------------------------------------
Answered(j) == pc[j] = "done" /\ kind[j] = "check"
Reported(j) == diff[j].new \cup diff[j].modified \cup diff[j].deleted \cup diff[j].permission

\* Types, and the four lists of an answer do not contradict each other.
BaselineTypeOK ==
  /\ disk \in [Files -> DiskStates]
  /\ table \in [Files -> Rows \cup {NoRow}]
  /\ pc \in [Jobs -> {"idle", "clear", "load", "list", "scan", "hash", "save", "missing", "done"}]
  /\ kind \in [Jobs -> {"create", "check"}]
  /\ todo \in [Jobs -> SUBSET Files]
  /\ at \in [Jobs -> SUBSET Files]
  /\ up \in BOOLEAN /\ (~up => pc \in [Jobs -> {"idle"}])
  /\ found \in [Jobs -> [Files -> Rows \cup {NoRow}]]
  /\ base \in [Jobs -> [Files -> Rows \cup {NoRow}]]
  /\ \A j \in Jobs :
       /\ Reported(j) \subseteq Files
       /\ diff[j].new \cap (diff[j].modified \cup diff[j].permission \cup diff[j].deleted) = {}
       /\ diff[j].deleted \cap (diff[j].modified \cup diff[j].permission) = {}

\* A check whose baseline is the whole work of one create raises no false alarm:
\* it reports no file that has not changed since that create began, however
\* other files changed and other jobs ran meanwhile, whichever files the check
\* could not look at, and whether or not the agent has crashed and been started
\* again since the create.
NoFalseAlarm ==
  \A j \in Jobs : Answered(j) /\ trusted[j] => Reported(j) \cap calm[j] = {}

\* What the answer "d" should say of a file that is in the state "state" and has
\* the row "row" in the baseline.  A file that is reported as modified has another
\* content than the one whose hash is in the row; one that has is reported, unless
\* it cannot be opened, or could not be when the row was made.
RightAnswer(d, f, row, state) ==
  /\ f \in d.new        <=> state # Gone /\ row = NoRow
  /\ f \in d.deleted    <=> state = Gone /\ row # NoRow
  /\ f \in d.permission <=> state # Gone /\ row # NoRow /\ state.perm # row.perm
  /\ f \in d.modified    => state # Gone /\ row # NoRow /\ state.content # row.sha
  /\ /\ state # Gone /\ row # NoRow /\ row.sha \notin {"", state.content}
     /\ state.perm # "unreadable"
     => f \in d.modified

\* A check is right about every file that does not change while it runs and that
\* it could look at, given the rows it has read, whatever happens to the other
\* files and whatever other jobs do: the scan misses none, and the second look
\* undoes no report.
CheckIsRight ==
  [][ \A j \in Jobs : CheckEnds(j) =>
        \A f \in still[j] : RightAnswer(diff[j], f, base[j][f], disk[f]) ]_vars

-----------------------------------------------------------------------------
\* CreateBaseline "snapshots all monitored files into SQLite": when no create is
\* under way and no call failed, the row of a file that has not changed since
\* the last create began is the state of that file.
DocBaselineIsSnapshot ==
  owner # {} /\ (\A j \in Jobs : ~Creating(j)) =>
    \A f \in quiet :
      table[f] = IF Exists(f) THEN [sha |-> HashOf(disk[f]), perm |-> disk[f].perm] ELSE NoRow

=============================================================================
