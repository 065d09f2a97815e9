---------------------------- MODULE BaselineProofs ----------------------------
(***************************************************************************)
(* The properties of Baseline for any files, contents and permissions, any *)
(* number of jobs, changes, crashes and calls that fail.                   *)
(***************************************************************************)
EXTENDS Baseline, TLAPS

\* The row that says what the state of a file is.
RowOf(state) ==
  IF state = Gone THEN NoRow ELSE [sha |-> HashOf(state), perm |-> state.perm]

Diffs == [new : SUBSET Files, modified : SUBSET Files,
          deleted : SUBSET Files, permission : SUBSET Files]

-----------------------------------------------------------------------------
\* The inductive invariant, in parts.

\* A job's variables, and which of them are in use where the job is.
JobOK(j) ==
  /\ pc[j] \in {"idle", "clear", "load", "list", "scan", "hash", "save", "missing", "done"}
  /\ kind[j] \in {"create", "check"}
  /\ todo[j] \subseteq Files /\ at[j] \subseteq Files
  /\ found[j] \in [Files -> Rows \cup {NoRow}]
  /\ base[j] \in [Files -> Rows \cup {NoRow}]
  /\ diff[j] \in Diffs
  /\ calm[j] \subseteq Files /\ still[j] \subseteq Files
  /\ ~up => pc[j] = "idle"
  /\ pc[j] \in {"clear", "save"} => kind[j] = "create"
  /\ pc[j] \in {"load", "missing"} => kind[j] = "check"
  /\ pc[j] \in {"idle", "clear", "load", "list", "done"} => found[j] = NoFiles
  /\ pc[j] # "hash" => at[j] = {}
  /\ pc[j] = "hash" => \A f \in at[j] : /\ at[j] = {f} /\ f \notin todo[j]
                                        /\ found[j][f] \in Rows
  /\ diff[j].new \cap (diff[j].modified \cup diff[j].permission \cup diff[j].deleted) = {}
  /\ diff[j].deleted \cap (diff[j].modified \cup diff[j].permission) = {}
  /\ pc[j] = "missing" =>
       /\ todo[j] \cup diff[j].deleted \subseteq Missing(j)
       /\ diff[j].modified \cup diff[j].permission \subseteq Both(j)
       /\ \A f \in diff[j].new : base[j][f] = NoRow

Types ==
  /\ disk \in [Files -> DiskStates]
  /\ table \in [Files -> Rows \cup {NoRow}]
  /\ up \in BOOLEAN
  /\ quiet \subseteq Files
  /\ pc = [j \in Jobs |-> pc[j]] /\ kind = [j \in Jobs |-> kind[j]]
  /\ todo = [j \in Jobs |-> todo[j]] /\ at = [j \in Jobs |-> at[j]]
  /\ found = [j \in Jobs |-> found[j]] /\ base = [j \in Jobs |-> base[j]]
  /\ DOMAIN diff = Jobs
  /\ DOMAIN trusted = Jobs /\ DOMAIN calm = Jobs /\ DOMAIN still = Jobs

\* How far the scan of the job is with a file that does not change.
Scanned(j, f) ==
  IF ~Exists(f) THEN f \notin todo[j] /\ f \notin at[j] /\ found[j][f] = NoRow
  ELSE \/ f \in todo[j] /\ f \notin at[j]
       \/ f \notin todo[j] /\ f \in at[j] /\ found[j][f] = [sha |-> "", perm |-> disk[f].perm]
       \/ f \notin todo[j] /\ f \notin at[j] /\ found[j][f] = RowOf(disk[f])

\* How much of it can be wrong that the table says right, when looks at it may
\* have failed: it may not be found, or found without its hash.
Harmless(j, f) ==
  IF ~Exists(f) THEN f \notin todo[j] /\ f \notin at[j] /\ found[j][f] = NoRow
  ELSE found[j][f] \in {NoRow, [sha |-> "", perm |-> disk[f].perm], RowOf(disk[f])}

\* What the comparison has made of it; todo holds what is to be looked for again.
Compared(j, f) ==
  RightAnswer([diff[j] EXCEPT !.deleted = @ \cup todo[j]], f, base[j][f], disk[f])

\* A check, of the files that have not changed since it began, and of those that
\* have not since the create began whose work it has read.
CheckOK(j) ==
  kind[j] = "check" =>
    /\ pc[j] \in {"list", "scan", "hash", "missing"} /\ trusted[j] =>
         \A f \in calm[j] : base[j][f] = RowOf(disk[f])
    /\ pc[j] \in {"scan", "hash"} => \A f \in still[j] : Scanned(j, f)
    /\ pc[j] \in {"scan", "hash"} => \A f \in calm[j] : Harmless(j, f)
    /\ pc[j] = "missing" => \A f \in still[j] : Compared(j, f)
    /\ pc[j] \in {"missing", "done"} /\ trusted[j] => Reported(j) \cap calm[j] = {}

\* A create whose work is whole: what it has found, and what it has saved.
CreateOK(j) ==
  whole /\ Creating(j) =>
    /\ owner = {j}
    /\ pc[j] # "save" => table = NoFiles
    /\ pc[j] \in {"scan", "hash"} => \A f \in quiet : Scanned(j, f)
    /\ pc[j] = "save" =>
         \A f \in quiet : (IF f \in todo[j] THEN found[j][f] ELSE table[f]) = RowOf(disk[f])

\* The whole work of a create describes the files that have not changed.
TableOK ==
  whole /\ (\A j \in Jobs : ~Creating(j)) => \A f \in quiet : table[f] = RowOf(disk[f])

BaselineInv ==
  /\ Types
  /\ \A j \in Jobs : JobOK(j) /\ CheckOK(j) /\ CreateOK(j)
  /\ TableOK

-----------------------------------------------------------------------------
\* Rows.

LEMMA RowFacts ==
  ASSUME NEW state \in DiskStates
  PROVE  /\ RowOf(state) \in Rows \cup {NoRow}
         /\ state # Gone => /\ RowOf(state) \in Rows /\ RowOf(state) # NoRow
                            /\ RowOf(state).sha = HashOf(state)
                            /\ RowOf(state).perm = state.perm
                            /\ [sha |-> "", perm |-> state.perm] \in Rows
                            /\ HashOf(state) \in Contents \cup {""}
<1> USE BaselineAssumption
<1>1. CASE state = Gone
  BY <1>1 DEF RowOf
<1>2. CASE state # Gone
  <2>1. state.perm \in Permissions /\ state.content \in Contents /\ state.perm # "norow"
    BY <1>2 DEF DiskStates
  <2> QED
    BY <1>2, <2>1 DEF RowOf, HashOf, Rows, NoRow
<1> QED
  BY <1>1, <1>2

LEMMA HashFacts ==
  ASSUME NEW state \in DiskStates
  PROVE  HashOf(state) \in Contents \cup {""}
<1>1. HashOf(Gone) = ""
  BY DEF HashOf, Gone
<1> QED
  BY <1>1, RowFacts

LEMMA HashlessRow ==
  ASSUME NEW row, NEW p, row = [sha |-> "", perm |-> p]
  PROVE  row.sha = "" /\ row.perm = p
OBVIOUS

LEMMA RowIsSome ==
  ASSUME NEW row \in Rows
  PROVE  row # NoRow
<1>1. row.perm \in Permissions /\ NoRow.perm = "norow"
  BY DEF Rows, NoRow
<1> QED
  BY <1>1, BaselineAssumption

LEMMA ShaField ==
  ASSUME NEW row, NEW s, NEW p, row = [sha |-> s, perm |-> p], NEW h
  PROVE  [row EXCEPT !.sha = h] = [sha |-> h, perm |-> p]
OBVIOUS

LEMMA RehashFacts ==
  ASSUME NEW row \in Rows, NEW h \in Contents \cup {""}
  PROVE  /\ [row EXCEPT !.sha = h] = [sha |-> h, perm |-> row.perm]
         /\ [row EXCEPT !.sha = h] \in Rows
<1>1. [row EXCEPT !.sha = h] \in Rows
  BY DEF Rows
<1>2. row = [sha |-> row.sha, perm |-> row.perm]
  BY DEF Rows
<1>3. [row EXCEPT !.sha = h] = [sha |-> h, perm |-> row.perm]
  BY <1>2, ShaField
<1> QED
  BY <1>1, <1>3

LEMMA BaselineInvInit == Init => BaselineInv
<1> SUFFICES ASSUME Init
             PROVE  BaselineInv
  OBVIOUS
<1>1. NoFiles \in [Files -> Rows \cup {NoRow}] /\ NoDiff \in Diffs
  BY DEF NoFiles, NoDiff, Diffs
<1>2. Types
  BY <1>1, InitialAssumption DEF Init, Types
<1>3. \A j \in Jobs : JobOK(j)
  BY <1>1 DEF Init, JobOK, NoDiff
<1>4. \A j \in Jobs : CheckOK(j)
  BY DEF Init, CheckOK
<1> QED
  BY <1>2, <1>3, <1>4 DEF Init, BaselineInv, CreateOK, TableOK

-----------------------------------------------------------------------------
\* What a step of one job leaves alone.

Local(j) == <<pc[j], kind[j], todo[j], at[j], found[j], base[j], diff[j],
              trusted[j], calm[j], still[j]>>

\* A job that does not step is as right as it was, while the files stay as they
\* are.
LEMMA OtherJobs ==
  ASSUME NEW j \in Jobs, JobOK(j), CheckOK(j), UNCHANGED <<disk, up, Local(j)>>
  PROVE  JobOK(j)' /\ CheckOK(j)'
<1>1. /\ disk' = disk /\ up' = up
      /\ pc'[j] = pc[j] /\ kind'[j] = kind[j] /\ todo'[j] = todo[j] /\ at'[j] = at[j]
      /\ found'[j] = found[j] /\ base'[j] = base[j] /\ diff'[j] = diff[j]
      /\ trusted'[j] = trusted[j] /\ calm'[j] = calm[j] /\ still'[j] = still[j]
  BY DEF Local
<1>2. JobOK(j)'
  BY <1>1 DEF JobOK, Missing, Both
<1>3. \A f \in Files : /\ (Scanned(j, f) <=> Scanned(j, f)') /\ (Compared(j, f) <=> Compared(j, f)')
                      /\ (Harmless(j, f) <=> Harmless(j, f)')
  BY <1>1 DEF Scanned, Harmless, Compared, Exists
<1>4. CheckOK(j)'
  BY <1>1, <1>3 DEF JobOK, CheckOK, Reported
<1> QED
  BY <1>2, <1>4

\* The same of a create, when its table and the history stay, too, or nothing is
\* whole any more.
LEMMA OtherCreates ==
  ASSUME NEW j \in Jobs, CreateOK(j), UNCHANGED <<disk, table, owner, quiet, Local(j)>>,
         whole' => whole
  PROVE  CreateOK(j)' /\ (Creating(j)' <=> Creating(j))
<1>1. /\ disk' = disk /\ pc'[j] = pc[j] /\ kind'[j] = kind[j] /\ todo'[j] = todo[j]
      /\ at'[j] = at[j] /\ found'[j] = found[j]
  BY DEF Local
<1>2. \A f : Scanned(j, f) <=> Scanned(j, f)'
  BY <1>1 DEF Scanned, Exists
<1> QED
  BY <1>1, <1>2 DEF CreateOK, Creating

\* A step of one job that touches neither the table nor its history keeps the
\* invariant when it keeps the job's own part, and ends no create.
LEMMA JobStep ==
  ASSUME BaselineInv, NEW i \in Jobs,
         \A j \in Jobs \ {i} : UNCHANGED Local(j),
         UNCHANGED <<disk, up, table, owner, quiet>>, whole' => whole,
         Creating(i) => Creating(i)',
         Types', JobOK(i)', CheckOK(i)', CreateOK(i)'
  PROVE  BaselineInv'
<1>1. \A j \in Jobs \ {i} : UNCHANGED <<disk, up, Local(j)>>
                            /\ UNCHANGED <<disk, table, owner, quiet, Local(j)>>
  OBVIOUS
<1>2. \A j \in Jobs : JobOK(j)' /\ CheckOK(j)' /\ CreateOK(j)'
  BY <1>1, OtherJobs, OtherCreates DEF BaselineInv
<1>3. \A j \in Jobs : Creating(j) => Creating(j)'
  BY <1>1, OtherCreates DEF BaselineInv
<1>4. TableOK'
  BY <1>3 DEF BaselineInv, TableOK
<1> QED
  BY <1>2, <1>4 DEF BaselineInv

LEMMA StartJobKeeps ==
  ASSUME BaselineInv, NEW i \in Jobs, NEW k \in {"create", "check"}, StartJob(i, k)
  PROVE  BaselineInv'
<1>1. Types /\ JobOK(i)
  BY DEF BaselineInv
<1>2. /\ pc[i] \in {"idle", "done"} /\ up
      /\ pc' = [pc EXCEPT ![i] = IF k = "create" THEN "clear" ELSE "load"]
      /\ kind' = [kind EXCEPT ![i] = k]
      /\ diff' = [diff EXCEPT ![i] = NoDiff]
      /\ trusted' = [trusted EXCEPT ![i] = FALSE] /\ calm' = [calm EXCEPT ![i] = {}]
      /\ UNCHANGED <<disk, up, table, todo, at, found, base, owner, whole, quiet, still>>
  BY DEF StartJob, process
<1>3. /\ pc'[i] = (IF k = "create" THEN "clear" ELSE "load") /\ kind'[i] = k /\ diff'[i] = NoDiff
      /\ calm'[i] = {}
      /\ \A j \in Jobs \ {i} : UNCHANGED Local(j)
      /\ Types'
  BY <1>1, <1>2 DEF Types, Local
<1>4. JobOK(i)'
  BY <1>1, <1>2, <1>3 DEF JobOK, NoDiff, Diffs
<1>5. CheckOK(i)' /\ CreateOK(i)' /\ ~Creating(i)
  BY <1>2, <1>3 DEF CheckOK, CreateOK, Creating
<1> QED
  BY <1>2, <1>3, <1>4, <1>5, JobStep

LEMMA StatementFailsKeeps ==
  ASSUME BaselineInv, NEW i \in Jobs, StatementFails(i)
  PROVE  BaselineInv'
<1>1. Types /\ JobOK(i)
  BY DEF BaselineInv
<1>2. /\ pc[i] \in {"clear", "load"} /\ pc' = [pc EXCEPT ![i] = "idle"]
      /\ UNCHANGED <<disk, up, table, kind, todo, at, found, base, diff, owner, whole, quiet,
                     trusted, calm, still>>
  BY DEF StatementFails, JobGoes, process, history, checkPast
<1>3. /\ pc'[i] = "idle"
      /\ \A j \in Jobs \ {i} : UNCHANGED Local(j)
      /\ Types'
  BY <1>1, <1>2 DEF Types, Local
<1>4. JobOK(i)' /\ CheckOK(i)'
  BY <1>1, <1>2, <1>3 DEF JobOK, CheckOK
<1>5. CreateOK(i)' /\ ~Creating(i)
  BY <1>2, <1>3 DEF CreateOK, Creating
<1> QED
  BY <1>2, <1>3, <1>4, <1>5, JobStep

\* Rows that were lost are rows of no trusted check.
LEMMA GetBaselineRecordsKeeps ==
  ASSUME BaselineInv, NEW i \in Jobs, NEW lost \in SUBSET Files, GetBaselineRecords(i, lost)
  PROVE  BaselineInv'
<1>1. Types /\ JobOK(i) /\ TableOK
  BY DEF BaselineInv
<1> DEFINE rows == [f \in Files |-> IF f \in lost THEN NoRow ELSE table[f]]
<1>2. /\ pc[i] = "load" /\ pc' = [pc EXCEPT ![i] = "list"]
      /\ base' = [base EXCEPT ![i] = rows]
      /\ trusted' = [trusted EXCEPT ![i] = lost = {} /\ whole /\ ~ \E j \in Jobs : Creating(j)]
      /\ calm' = [calm EXCEPT ![i] = quiet]
      /\ still' = [still EXCEPT ![i] = Files]
      /\ UNCHANGED <<disk, up, table, kind, todo, at, found, diff, owner, whole, quiet>>
  BY DEF GetBaselineRecords, JobGoes, process
<1>a. /\ rows \in [Files -> Rows \cup {NoRow}]
      /\ lost = {} => \A f \in Files : rows[f] = table[f]
  BY <1>1 DEF Types
<1> HIDE DEF rows
<1>3. /\ pc'[i] = "list" /\ base'[i] = rows /\ calm'[i] = quiet /\ still'[i] = Files
      /\ trusted'[i] <=> lost = {} /\ whole /\ ~ \E j \in Jobs : Creating(j)
      /\ \A j \in Jobs \ {i} : UNCHANGED Local(j)
      /\ Types'
  <2>1. trusted'[i] = (lost = {} /\ whole /\ ~ \E j \in Jobs : Creating(j))
    BY <1>1, <1>2 DEF Types
  <2> QED
    BY <1>1, <1>2, <2>1 DEF Types, Local
<1>4. JobOK(i)' /\ kind[i] = "check"
  BY <1>1, <1>2, <1>3, <1>a DEF JobOK, Types
<1>5. CheckOK(i)'
  BY <1>1, <1>2, <1>3, <1>a DEF CheckOK, Types, TableOK
<1>6. CreateOK(i)' /\ ~Creating(i)
  BY <1>2, <1>3, <1>4 DEF CreateOK, Creating
<1> QED
  BY <1>2, <1>3, <1>4, <1>5, <1>6, JobStep

LEMMA ListFilesKeeps ==
  ASSUME BaselineInv, NEW i \in Jobs, ListFiles(i)
  PROVE  BaselineInv'
<1>1. Types /\ JobOK(i) /\ CheckOK(i) /\ CreateOK(i)
  BY DEF BaselineInv
<1>2. /\ pc[i] = "list" /\ pc' = [pc EXCEPT ![i] = "scan"]
      /\ todo' = [todo EXCEPT ![i] = { f \in Files : Exists(f) }]
      /\ UNCHANGED <<disk, up, table, kind, at, found, base, diff, owner, whole, quiet,
                     trusted, calm, still>>
  BY DEF ListFiles, JobGoes, process, history, checkPast
<1>3. /\ pc'[i] = "scan" /\ todo'[i] = { f \in Files : Exists(f) }
      /\ \A j \in Jobs \ {i} : UNCHANGED Local(j)
      /\ Types'
  BY <1>1, <1>2 DEF Types, Local
<1>4. JobOK(i)'
  BY <1>1, <1>2, <1>3 DEF JobOK
<1>5. \A f \in Files : Scanned(i, f)' /\ Harmless(i, f)'
  BY <1>1, <1>2, <1>3 DEF Scanned, Harmless, JobOK, NoFiles, Exists
<1>6. CheckOK(i)' /\ CreateOK(i)' /\ (Creating(i) => Creating(i)')
  BY <1>1, <1>2, <1>3, <1>5 DEF CheckOK, CreateOK, Creating, JobOK, Types
<1> QED
  BY <1>2, <1>3, <1>4, <1>6, JobStep

\* A step of the scan is right when it is right about the files that do not
\* change.
LEMMA ScanStep ==
  ASSUME BaselineInv, NEW i \in Jobs,
         pc[i] \in {"scan", "hash"}, pc'[i] \in {"scan", "hash"},
         \A j \in Jobs \ {i} : UNCHANGED Local(j),
         UNCHANGED <<disk, up, table, owner, whole, quiet, kind, base, diff, trusted, calm, still>>,
         Types', JobOK(i)',
         \A f \in Files : /\ Scanned(i, f) => Scanned(i, f)'
                          /\ Harmless(i, f) => Harmless(i, f)'
  PROVE  BaselineInv'
<1>1. Types /\ JobOK(i) /\ CheckOK(i) /\ CreateOK(i)
  BY DEF BaselineInv
<1>2. CheckOK(i)'
  BY <1>1 DEF CheckOK, JobOK
<1>3. CreateOK(i)' /\ (Creating(i) => Creating(i)')
  BY <1>1 DEF CreateOK, Creating, Types
<1> QED
  BY <1>2, <1>3, JobStep

LEMMA LstatFileKeeps ==
  ASSUME BaselineInv, NEW i \in Jobs, NEW g \in Files, LstatFile(i, g)
  PROVE  BaselineInv'
<1>1. Types /\ JobOK(i)
  BY DEF BaselineInv
<1>2. /\ pc[i] = "scan" /\ g \in todo[i]
      /\ todo' = [todo EXCEPT ![i] = @ \ {g}]
      /\ UNCHANGED <<disk, up, table, kind, base, diff, owner, whole, quiet, trusted, calm, still>>
  BY DEF LstatFile, process, history, checkPast
<1>3. todo'[i] = todo[i] \ {g} /\ at[i] = {} /\ \A j \in Jobs \ {i} : todo'[j] = todo[j]
  BY <1>1, <1>2 DEF Types, JobOK
<1>4. CASE Exists(g)
  <2> DEFINE row == [sha |-> "", perm |-> disk[g].perm]
  <2>1. /\ found' = [found EXCEPT ![i][g] = row]
        /\ at' = [at EXCEPT ![i] = {g}]
        /\ pc' = [pc EXCEPT ![i] = "hash"]
    BY <1>4 DEF LstatFile
  <2>2. row \in Rows
    BY <1>1, <1>4, RowFacts DEF Types, Exists
  <2> HIDE DEF row
  <2>3. /\ pc'[i] = "hash" /\ at'[i] = {g}
        /\ found'[i] = [found[i] EXCEPT ![g] = row]
        /\ \A j \in Jobs \ {i} : UNCHANGED Local(j)
        /\ Types'
    BY <1>1, <1>2, <1>3, <2>1 DEF Types, Local
  <2>4. /\ found'[i] \in [Files -> Rows \cup {NoRow}] /\ found'[i][g] = row
        /\ \A f \in Files : f # g => found'[i][f] = found[i][f]
    BY <1>1, <2>2, <2>3 DEF JobOK
  <2>5. JobOK(i)'
    BY <1>1, <1>2, <1>3, <2>2, <2>3, <2>4 DEF JobOK
  <2>6. \A f \in Files : /\ Scanned(i, f) => Scanned(i, f)'
                         /\ Harmless(i, f) => Harmless(i, f)'
    BY <1>2, <1>3, <1>4, <2>3, <2>4 DEF Scanned, Harmless, Exists, row
  <2> QED
    BY <1>2, <2>3, <2>5, <2>6, ScanStep
<1>5. CASE ~Exists(g)
  <2>1. UNCHANGED <<found, at, pc>>
    BY <1>5 DEF LstatFile
  <2>2. Types' /\ \A j \in Jobs \ {i} : UNCHANGED Local(j)
    BY <1>1, <1>2, <1>3, <2>1 DEF Types, Local
  <2>3. JobOK(i)'
    BY <1>1, <1>2, <1>3, <2>1 DEF JobOK
  <2>4. \A f \in Files : /\ Scanned(i, f) => Scanned(i, f)'
                         /\ Harmless(i, f) => Harmless(i, f)'
    BY <1>2, <1>3, <1>5, <2>1 DEF Scanned, Harmless, Exists
  <2> QED
    BY <1>2, <2>1, <2>2, <2>3, <2>4, ScanStep
<1> QED
  BY <1>4, <1>5

LEMMA HashFileKeeps ==
  ASSUME BaselineInv, NEW i \in Jobs, NEW g \in Files, HashFile(i, g)
  PROVE  BaselineInv'
<1>1. Types /\ JobOK(i)
  BY DEF BaselineInv
<1> DEFINE row == [found[i][g] EXCEPT !.sha = HashOf(disk[g])]
<1>2. /\ pc[i] = "hash" /\ g \in at[i] /\ pc' = [pc EXCEPT ![i] = "scan"]
      /\ at' = [at EXCEPT ![i] = {}]
      /\ found' = [found EXCEPT ![i][g] = row]
      /\ UNCHANGED <<disk, up, table, kind, todo, base, diff, owner, whole, quiet,
                     trusted, calm, still>>
  BY DEF HashFile, JobGoes, process, history, checkPast
<1>3. /\ found[i][g] \in Rows /\ g \notin todo[i]
      /\ HashOf(disk[g]) \in Contents \cup {""}
  <2>1. disk[g] \in DiskStates
    BY <1>1 DEF Types
  <2> QED
    BY <1>1, <1>2, <2>1, HashFacts DEF JobOK
<1>4. row \in Rows /\ row = [sha |-> HashOf(disk[g]), perm |-> found[i][g].perm]
  BY <1>3, RehashFacts
<1> HIDE DEF row
<1>5. /\ pc'[i] = "scan" /\ at'[i] = {} /\ found'[i] = [found[i] EXCEPT ![g] = row]
      /\ \A j \in Jobs \ {i} : UNCHANGED Local(j)
      /\ Types'
  BY <1>1, <1>2 DEF Types, Local
<1>6. /\ found'[i] \in [Files -> Rows \cup {NoRow}] /\ found'[i][g] = row
      /\ \A f \in Files : f # g => found'[i][f] = found[i][f]
  BY <1>1, <1>4, <1>5 DEF JobOK
<1>7. JobOK(i)'
  BY <1>1, <1>2, <1>5, <1>6 DEF JobOK
<1>8. ASSUME NEW f \in Files, Scanned(i, f)
      PROVE  Scanned(i, f)'
  <2>1. CASE f = g
    <3>1. Exists(g) /\ found[i][g] = [sha |-> "", perm |-> disk[g].perm]
      BY <1>2, <1>8, <2>1 DEF Scanned
    <3>2. row = RowOf(disk[g])
      <4>1. found[i][g].perm = disk[g].perm
        BY <3>1, HashlessRow
      <4> QED
        BY <1>4, <3>1, <4>1 DEF RowOf, Exists
    <3> QED
      BY <1>2, <1>3, <1>5, <1>6, <2>1, <3>1, <3>2 DEF Scanned, Exists
  <2>2. CASE f # g
    <3>1. f \notin at[i]
      BY <1>1, <1>2, <2>2 DEF JobOK
    <3> QED
      BY <1>2, <1>5, <1>6, <1>8, <2>2, <3>1 DEF Scanned, Exists
  <2> QED
    BY <2>1, <2>2
<1>9. ASSUME NEW f \in Files, Harmless(i, f)
      PROVE  Harmless(i, f)'
  <2>1. CASE f = g
    <3>1. Exists(g)
      BY <1>2, <1>9, <2>1 DEF Harmless
    <3>2. found[i][g] # NoRow /\ disk[g] \in DiskStates
      BY <1>1, <1>3, RowIsSome DEF Types
    <3>3. found[i][g].perm = disk[g].perm
      <4>1. RowOf(disk[g]).perm = disk[g].perm
        BY <3>1, <3>2, RowFacts DEF Exists
      <4> QED
        BY <1>9, <2>1, <3>1, <3>2, <4>1, HashlessRow DEF Harmless
    <3>4. row = RowOf(disk[g])
      BY <1>4, <3>1, <3>3 DEF RowOf, Exists
    <3> QED
      BY <1>2, <1>6, <2>1, <3>1, <3>4 DEF Harmless, Exists
  <2>2. CASE f # g
    <3>1. f \notin at[i]
      BY <1>1, <1>2, <2>2 DEF JobOK
    <3> QED
      BY <1>2, <1>5, <1>6, <1>9, <2>2, <3>1 DEF Harmless, Exists
  <2> QED
    BY <2>1, <2>2
<1> QED
  BY <1>2, <1>5, <1>7, <1>8, <1>9, ScanStep

\* A look that fails: nothing more is known of the file, and a create is not whole.
LEMMA LookStep ==
  ASSUME BaselineInv, NEW i \in Jobs, NEW g \in Files, LookFails(i, g),
         UNCHANGED found,
         \/ pc[i] = "scan" /\ g \in todo[i] /\ todo' = [todo EXCEPT ![i] = @ \ {g}]
            /\ UNCHANGED <<pc, at>>
         \/ g \in at[i] /\ JobGoes(i, "hash", "scan") /\ at' = [at EXCEPT ![i] = {}]
            /\ UNCHANGED todo
  PROVE  BaselineInv'
<1>1. Types /\ JobOK(i) /\ CheckOK(i) /\ \A j \in Jobs : JobOK(j) /\ CheckOK(j) /\ CreateOK(j)
  BY DEF BaselineInv
<1>2. /\ still' = [still EXCEPT ![i] = @ \ {g}] /\ whole' = (whole /\ kind[i] # "create")
      /\ UNCHANGED <<disk, up, table, kind, base, diff, owner, quiet, trusted, calm>>
  BY DEF LookFails, process
<1>3. /\ pc[i] \in {"scan", "hash"} /\ pc'[i] = "scan" /\ at'[i] = {}
      /\ todo'[i] = todo[i] \ {g} /\ still'[i] = still[i] \ {g}
      /\ at[i] = {} \/ at[i] = {g}
      /\ \A j \in Jobs \ {i} : UNCHANGED Local(j)
      /\ Types'
  BY <1>1, <1>2 DEF JobGoes, Types, Local, JobOK
<1>4. JobOK(i)'
  BY <1>1, <1>2, <1>3 DEF JobOK
<1>5. \A f \in Files : /\ f # g /\ Scanned(i, f) => Scanned(i, f)'
                       /\ Harmless(i, f) => Harmless(i, f)'
  BY <1>2, <1>3 DEF Scanned, Harmless, Exists
<1>6. CheckOK(i)'
  BY <1>1, <1>2, <1>3, <1>5 DEF CheckOK, JobOK
<1>7. CreateOK(i)' /\ (Creating(i) => Creating(i)')
  BY <1>2, <1>3 DEF CreateOK, Creating
<1> QED
  BY <1>2, <1>3, <1>4, <1>6, <1>7, JobStep

LEMMA LookFailsKeeps ==
  ASSUME BaselineInv, NEW i \in Jobs, NEW g \in Files, SkipFile(i, g) \/ HashFails(i, g)
  PROVE  BaselineInv'
BY LookStep DEF SkipFile, HashFails

LEMMA SavingStartsKeeps ==
  ASSUME BaselineInv, NEW i \in Jobs, SavingStarts(i)
  PROVE  BaselineInv'
<1>1. Types /\ JobOK(i) /\ CreateOK(i)
  BY DEF BaselineInv
<1>2. /\ kind[i] = "create" /\ todo[i] = {} /\ pc[i] = "scan"
      /\ pc' = [pc EXCEPT ![i] = "save"]
      /\ todo' = [todo EXCEPT ![i] = { f \in Files : found[i][f] # NoRow }]
      /\ UNCHANGED <<disk, up, table, kind, at, found, base, diff, owner, whole, quiet,
                     trusted, calm, still>>
  BY DEF SavingStarts, JobGoes, process, history, checkPast
<1>3. /\ pc'[i] = "save" /\ todo'[i] = { f \in Files : found[i][f] # NoRow }
      /\ at[i] = {}
      /\ \A j \in Jobs \ {i} : UNCHANGED Local(j)
      /\ Types'
  BY <1>1, <1>2 DEF Types, Local, JobOK
<1>4. JobOK(i)'
  BY <1>1, <1>2, <1>3 DEF JobOK
<1>5. \A f \in Files : Scanned(i, f) => found[i][f] = RowOf(disk[f])
  BY <1>2, <1>3 DEF Scanned, Exists, RowOf
<1>6. CreateOK(i)'
  <2> SUFFICES ASSUME whole, NEW f \in quiet
               PROVE  /\ owner = {i}
                      /\ (IF f \in todo'[i] THEN found[i][f] ELSE table[f]) = RowOf(disk[f])
    <3>1. whole /\ Creating(i) => owner = {i}
      BY <1>1 DEF CreateOK
    <3> QED
      BY <1>2, <1>3, <3>1 DEF CreateOK, Creating
  <2>1. f \in Files /\ owner = {i} /\ table = NoFiles /\ Scanned(i, f)
    BY <1>1, <1>2 DEF CreateOK, Creating, Types
  <2>2. found[i][f] = RowOf(disk[f]) /\ table[f] = NoRow
    BY <1>5, <2>1 DEF NoFiles
  <2> QED
    BY <1>3, <2>1, <2>2
<1>7. CheckOK(i)' /\ Creating(i)'
  BY <1>2, <1>3 DEF CheckOK, Creating
<1> QED
  BY <1>2, <1>3, <1>4, <1>6, <1>7, JobStep

LEMMA DifferenceFields ==
  ASSUME NEW j \in Jobs
  PROVE  /\ Differences(j).new = { f \in Files : found[j][f] # NoRow /\ base[j][f] = NoRow }
         /\ Differences(j).modified = { f \in Both(j) : found[j][f].sha \notin {"", base[j][f].sha} }
         /\ Differences(j).permission = { f \in Both(j) : found[j][f].perm # base[j][f].perm }
         /\ Differences(j).deleted = {}
         /\ Differences(j) \in Diffs
<1>1. Both(j) \subseteq Files
  BY DEF Both
<1> DEFINE n == { f \in Files : found[j][f] # NoRow /\ base[j][f] = NoRow }
           m == { f \in Both(j) : found[j][f].sha \notin {"", base[j][f].sha} }
           p == { f \in Both(j) : found[j][f].perm # base[j][f].perm }
<1>2. Differences(j) = [new |-> n, modified |-> m, permission |-> p, deleted |-> {}]
  BY DEF Differences
<1>3. n \subseteq Files /\ m \subseteq Files /\ p \subseteq Files
  BY <1>1
<1> HIDE DEF n, m, p
<1>4. /\ Differences(j).new = n /\ Differences(j).modified = m
      /\ Differences(j).permission = p /\ Differences(j).deleted = {}
      /\ Differences(j) \in Diffs
  BY <1>2, <1>3 DEF Diffs
<1> QED
  BY <1>4 DEF n, m, p

\* The end of the scan of a check: what is to be looked for again is missing.
LEMMA CompareFoundKeeps ==
  ASSUME BaselineInv, NEW i \in Jobs, CompareFound(i)
  PROVE  BaselineInv'
<1>1. Types /\ JobOK(i) /\ CheckOK(i)
  BY DEF BaselineInv
<1>2. /\ kind[i] = "check" /\ todo[i] = {} /\ pc[i] = "scan"
      /\ pc' = [pc EXCEPT ![i] = "missing"]
      /\ diff' = [diff EXCEPT ![i] = Differences(i)]
      /\ todo' = [todo EXCEPT ![i] = Missing(i)]
      /\ UNCHANGED <<disk, up, table, kind, at, found, base, owner, whole, quiet,
                     trusted, calm, still>>
  BY DEF CompareFound, JobGoes, process, history, checkPast
<1>3. /\ pc'[i] = "missing" /\ todo'[i] = Missing(i) /\ diff'[i] = Differences(i)
      /\ at[i] = {}
      /\ \A j \in Jobs \ {i} : UNCHANGED Local(j)
      /\ Types'
  BY <1>1, <1>2 DEF Types, Local, JobOK
<1>a. /\ Both(i)' = Both(i) /\ Missing(i)' = Missing(i)
      /\ Both(i) \subseteq Files /\ Missing(i) \subseteq Files
      /\ Both(i) \cap Missing(i) = {}
  BY <1>2 DEF Both, Missing
<1>b. /\ diff'[i] \in Diffs /\ diff'[i].deleted = {}
      /\ diff'[i].modified \cup diff'[i].permission \subseteq Both(i)
      /\ \A f \in diff'[i].new : f \in Files /\ base[i][f] = NoRow
  <2> DEFINE d == Differences(i)
  <2>1. /\ d \in Diffs /\ d.deleted = {}
        /\ d.modified \subseteq Both(i) /\ d.permission \subseteq Both(i)
        /\ \A f \in d.new : f \in Files /\ base[i][f] = NoRow
    BY DifferenceFields
  <2> HIDE DEF d
  <2>2. diff'[i] = d
    BY <1>3 DEF d
  <2> QED
    BY <2>1, <2>2
<1>c. \A f \in Both(i) : base[i][f] # NoRow
  BY DEF Both
<1>4. JobOK(i)'
  BY <1>1, <1>2, <1>3, <1>a, <1>b, <1>c DEF JobOK
<1>5. ASSUME NEW f \in Files, Scanned(i, f)
      PROVE  Compared(i, f)'
  <2>1. found[i][f] = RowOf(disk[f]) /\ disk[f] \in DiskStates
    BY <1>1, <1>2, <1>3, <1>5 DEF Scanned, Exists, RowOf, Types
  <2>2. found[i][f] # NoRow <=> disk[f] # Gone
    BY <2>1, RowFacts DEF RowOf
  <2>3. disk[f] # Gone => found[i][f].sha = HashOf(disk[f]) /\ found[i][f].perm = disk[f].perm
    BY <2>1, RowFacts
  <2> DEFINE d == [diff'[i] EXCEPT !.deleted = @ \cup todo'[i]]
  <2>4. /\ d.new = { h \in Files : found[i][h] # NoRow /\ base[i][h] = NoRow }
        /\ d.modified = { h \in Both(i) : found[i][h].sha \notin {"", base[i][h].sha} }
        /\ d.permission = { h \in Both(i) : found[i][h].perm # base[i][h].perm }
        /\ d.deleted = Missing(i)
    <3>1. /\ d.new = diff'[i].new /\ d.modified = diff'[i].modified
          /\ d.permission = diff'[i].permission /\ d.deleted = Missing(i)
      BY <1>3, <1>b DEF Diffs
    <3> HIDE DEF d
    <3> QED
      BY <1>3, <3>1, DifferenceFields
  <2> HIDE DEF d
  <2>5. /\ f \in d.new <=> disk[f] # Gone /\ base[i][f] = NoRow
        /\ f \in d.deleted <=> disk[f] = Gone /\ base[i][f] # NoRow
        /\ f \in d.permission <=> disk[f] # Gone /\ base[i][f] # NoRow
                                  /\ disk[f].perm # base[i][f].perm
        /\ f \in d.modified => /\ disk[f] # Gone /\ base[i][f] # NoRow
                               /\ disk[f].content # base[i][f].sha
        /\ /\ disk[f] # Gone /\ base[i][f] # NoRow /\ base[i][f].sha \notin {"", disk[f].content}
           /\ disk[f].perm # "unreadable"
           => f \in d.modified
    <3>1. f \in Both(i) <=> disk[f] # Gone /\ base[i][f] # NoRow
      BY <2>2 DEF Both
    <3>2. f \in d.new <=> disk[f] # Gone /\ base[i][f] = NoRow
      BY <2>2, <2>4
    <3>3. f \in d.deleted <=> disk[f] = Gone /\ base[i][f] # NoRow
      BY <2>2, <2>4 DEF Missing
    <3>4. f \in d.permission <=> disk[f] # Gone /\ base[i][f] # NoRow
                                  /\ disk[f].perm # base[i][f].perm
      BY <2>3, <2>4, <3>1
    <3>5. f \in d.modified <=> /\ disk[f] # Gone /\ base[i][f] # NoRow
                                /\ HashOf(disk[f]) \notin {"", base[i][f].sha}
      BY <2>3, <2>4, <3>1
    <3>6. /\ disk[f] # Gone => HashOf(disk[f]) = IF disk[f].perm = "unreadable" THEN "" ELSE disk[f].content
          /\ disk[f] # Gone => disk[f].content # ""
      BY <2>1, BaselineAssumption DEF HashOf, DiskStates
    <3>7. f \in d.modified => disk[f].content # base[i][f].sha
      BY <3>5, <3>6
    <3>8. /\ disk[f] # Gone /\ base[i][f] # NoRow /\ base[i][f].sha \notin {"", disk[f].content}
          /\ disk[f].perm # "unreadable"
          => f \in d.modified
      BY <3>5, <3>6
    <3> QED
      BY <3>2, <3>3, <3>4, <3>5, <3>7, <3>8
  <2>6. /\ disk' = disk /\ base' = base
    BY <1>2
  <2> QED
    BY <2>5, <2>6 DEF Compared, RightAnswer, d
<1>d. ASSUME trusted[i], NEW f \in calm[i]
      PROVE  f \notin Reported(i)'
  <2>1. /\ f \in Files /\ Harmless(i, f) /\ base[i][f] = RowOf(disk[f])
        /\ disk[f] \in DiskStates
    BY <1>1, <1>2, <1>d DEF CheckOK, JobOK, Types
  <2>2. CASE disk[f] = Gone
    <3>1. found[i][f] = NoRow
      BY <2>1, <2>2 DEF Harmless, Exists
    <3> QED
      BY <1>3, <1>b, <3>1, DifferenceFields DEF Reported, Both
  <2>3. CASE disk[f] # Gone
    <3>1. /\ RowOf(disk[f]) # NoRow /\ RowOf(disk[f]).perm = disk[f].perm
          /\ found[i][f] # NoRow =>
               /\ found[i][f].sha \in {"", RowOf(disk[f]).sha}
               /\ found[i][f].perm = RowOf(disk[f]).perm
      <4>1. /\ RowOf(disk[f]) # NoRow /\ RowOf(disk[f]).perm = disk[f].perm
            /\ found[i][f] \in {NoRow, [sha |-> "", perm |-> disk[f].perm], RowOf(disk[f])}
        BY <2>1, <2>3, RowFacts DEF Harmless, Exists
      <4> QED
        BY <4>1, HashlessRow
    <3>2. f \notin diff'[i].new
      BY <1>3, <2>1, <3>1, DifferenceFields
    <3>3. f \notin diff'[i].modified
      <4>1. f \in diff'[i].modified =>
              found[i][f] # NoRow /\ found[i][f].sha \notin {"", base[i][f].sha}
        BY <1>3, DifferenceFields DEF Both
      <4> QED
        BY <2>1, <3>1, <4>1
    <3>4. f \notin diff'[i].permission
      <4>1. f \in diff'[i].permission =>
              found[i][f] # NoRow /\ found[i][f].perm # base[i][f].perm
        BY <1>3, DifferenceFields DEF Both
      <4> QED
        BY <2>1, <3>1, <4>1
    <3> QED
      BY <1>b, <3>2, <3>3, <3>4 DEF Reported
  <2> QED
    BY <2>2, <2>3
<1>6. CheckOK(i)'
  BY <1>1, <1>2, <1>3, <1>5, <1>d DEF CheckOK, JobOK
<1>7. CreateOK(i)' /\ ~Creating(i)
  BY <1>2 DEF CreateOK, Creating
<1> QED
  BY <1>2, <1>3, <1>4, <1>6, <1>7, JobStep

\* A file that is looked for again is taken from one list to the other, unless
\* it has come back; then it has changed.
LEMMA LookAgainKeeps ==
  ASSUME BaselineInv, NEW i \in Jobs, NEW g \in Files, LookAgain(i, g)
  PROVE  BaselineInv'
<1>1. Types /\ JobOK(i) /\ CheckOK(i)
  BY DEF BaselineInv
<1>2. /\ pc[i] = "missing" /\ g \in todo[i]
      /\ todo' = [todo EXCEPT ![i] = @ \ {g}]
      /\ diff' = IF Exists(g) THEN diff ELSE [diff EXCEPT ![i].deleted = @ \cup {g}]
      /\ UNCHANGED <<disk, up, table, pc, kind, at, found, base, owner, whole, quiet,
                     trusted, calm, still>>
  BY DEF LookAgain, process, history, checkPast
<1>3. /\ todo'[i] = todo[i] \ {g}
      /\ diff'[i] = IF Exists(g) THEN diff[i] ELSE [diff[i] EXCEPT !.deleted = @ \cup {g}]
      /\ \A j \in Jobs \ {i} : UNCHANGED Local(j)
      /\ Types'
  BY <1>1, <1>2 DEF Types, Local
<1>4. /\ diff[i] \in Diffs /\ diff'[i] \in Diffs
      /\ diff'[i].new = diff[i].new /\ diff'[i].modified = diff[i].modified
      /\ diff'[i].permission = diff[i].permission
      /\ diff'[i].deleted = diff[i].deleted \cup (IF Exists(g) THEN {} ELSE {g})
  BY <1>1, <1>3 DEF JobOK, Diffs
<1>5. /\ Both(i)' = Both(i) /\ Missing(i)' = Missing(i) /\ Both(i) \cap Missing(i) = {}
      /\ \A f \in Missing(i) : base[i][f] # NoRow
      /\ g \in Missing(i)
  BY <1>1, <1>2 DEF Both, Missing, JobOK
<1>6. JobOK(i)'
  BY <1>1, <1>2, <1>3, <1>4, <1>5 DEF JobOK
<1>7. ASSUME NEW f \in Files, Compared(i, f), g = f => ~Exists(g)
      PROVE  Compared(i, f)'
  <2> DEFINE d == [diff[i] EXCEPT !.deleted = @ \cup todo[i]]
             e == [diff'[i] EXCEPT !.deleted = @ \cup todo'[i]]
  <2>1. /\ e.new = d.new /\ e.modified = d.modified /\ e.permission = d.permission
        /\ f \in e.deleted <=> f \in d.deleted
    BY <1>2, <1>3, <1>4, <1>7 DEF Diffs
  <2>2. RightAnswer(d, f, base[i][f], disk[f])
    BY <1>7 DEF Compared
  <2>3. RightAnswer(e, f, base[i][f], disk[f])
    BY <2>1, <2>2 DEF RightAnswer
  <2>4. disk' = disk /\ base' = base
    BY <1>2
  <2> QED
    BY <2>3, <2>4 DEF Compared, RightAnswer
<1>8. CheckOK(i)'
  <2>1. \A f \in still[i] : Compared(i, f) /\ f \in Files
    BY <1>1, <1>2 DEF CheckOK, JobOK
  <2>2. g \in still[i] => ~Exists(g)
    <3>1. g \in [diff[i] EXCEPT !.deleted = @ \cup todo[i]].deleted
      BY <1>2, <1>4 DEF Diffs
    <3> QED
      BY <2>1, <3>1 DEF Compared, RightAnswer, Exists
  <2>3. trusted[i] => Reported(i)' \cap calm[i] = {}
    <3>1. trusted[i] /\ g \in calm[i] => Exists(g)
      <4>1. kind[i] = "check" /\ base[i][g] # NoRow
        BY <1>1, <1>2, <1>5 DEF JobOK
      <4>2. trusted[i] /\ g \in calm[i] => base[i][g] = RowOf(disk[g])
        BY <1>1, <1>2, <4>1 DEF CheckOK
      <4> QED
        BY <4>1, <4>2 DEF RowOf, Exists
    <3>2. trusted[i] => Reported(i) \cap calm[i] = {}
      BY <1>1, <1>2 DEF CheckOK, JobOK
    <3>3. Reported(i)' = Reported(i) \cup (IF Exists(g) THEN {} ELSE {g})
      BY <1>4 DEF Reported
    <3> QED
      BY <3>1, <3>2, <3>3
  <2> QED
    BY <1>1, <1>2, <1>7, <2>1, <2>2, <2>3 DEF CheckOK, JobOK
<1>9. CreateOK(i)' /\ ~Creating(i)
  BY <1>2 DEF CreateOK, Creating
<1> QED
  BY <1>2, <1>3, <1>6, <1>8, <1>9, JobStep

\* A second look that fails reports nothing.
LEMMA LookAgainFailsKeeps ==
  ASSUME BaselineInv, NEW i \in Jobs, NEW g \in Files, LookAgainFails(i, g)
  PROVE  BaselineInv'
<1>1. Types /\ JobOK(i) /\ CheckOK(i)
  BY DEF BaselineInv
<1>2. /\ pc[i] = "missing" /\ g \in todo[i]
      /\ todo' = [todo EXCEPT ![i] = @ \ {g}]
      /\ still' = [still EXCEPT ![i] = @ \ {g}] /\ whole' = (whole /\ kind[i] # "create")
      /\ UNCHANGED <<disk, up, table, pc, kind, at, found, base, diff, owner, quiet, trusted, calm>>
  BY DEF LookAgainFails, LookFails, process
<1>3. /\ todo'[i] = todo[i] \ {g} /\ still'[i] = still[i] \ {g} /\ kind[i] = "check"
      /\ \A j \in Jobs \ {i} : UNCHANGED Local(j)
      /\ Types'
  BY <1>1, <1>2 DEF Types, Local, JobOK
<1>4. Both(i)' = Both(i) /\ Missing(i)' = Missing(i)
  BY <1>2 DEF Both, Missing
<1>5. JobOK(i)'
  BY <1>1, <1>2, <1>3, <1>4 DEF JobOK
<1>6. ASSUME NEW f \in Files, Compared(i, f), f # g
      PROVE  Compared(i, f)'
  <2> DEFINE d == [diff[i] EXCEPT !.deleted = @ \cup todo[i]]
             e == [diff[i] EXCEPT !.deleted = @ \cup todo'[i]]
  <2>1. /\ e.new = d.new /\ e.modified = d.modified /\ e.permission = d.permission
        /\ f \in e.deleted <=> f \in d.deleted
    BY <1>1, <1>3, <1>6 DEF JobOK, Diffs
  <2>2. RightAnswer(e, f, base[i][f], disk[f])
    BY <1>6, <2>1 DEF Compared, RightAnswer
  <2>3. disk' = disk /\ base' = base /\ diff' = diff
    BY <1>2
  <2> QED
    BY <2>2, <2>3 DEF Compared, RightAnswer
<1>7. CheckOK(i)'
  <2>1. Reported(i)' = Reported(i) /\ \A f \in still'[i] : f \in still[i] /\ f # g /\ f \in Files
    BY <1>1, <1>2, <1>3 DEF Reported, JobOK
  <2> QED
    BY <1>1, <1>2, <1>3, <1>6, <2>1 DEF CheckOK
<1>8. CreateOK(i)' /\ ~Creating(i)
  BY <1>2 DEF CreateOK, Creating
<1> QED
  BY <1>2, <1>3, <1>5, <1>7, <1>8, JobStep

\* An answer is right about the files that have not changed and were looked at.
LEMMA AnswerIsRight ==
  ASSUME BaselineInv, NEW i \in Jobs, CheckEnds(i), NEW f \in still[i]
  PROVE  RightAnswer(diff[i], f, base[i][f], disk[f])
<1>1. kind[i] = "check" /\ pc[i] = "missing" /\ todo[i] = {}
  BY DEF CheckEnds, JobGoes, BaselineInv, JobOK
<1>2. Compared(i, f) /\ diff[i] \in Diffs
  BY <1>1 DEF BaselineInv, CheckOK, JobOK
<1>3. [diff[i] EXCEPT !.deleted = @ \cup todo[i]].deleted = diff[i].deleted
  BY <1>1, <1>2 DEF Diffs
<1>4. LET d == [diff[i] EXCEPT !.deleted = @ \cup todo[i]] IN
      d.new = diff[i].new /\ d.modified = diff[i].modified /\ d.permission = diff[i].permission
  BY <1>2 DEF Diffs
<1> QED
  BY <1>2, <1>3, <1>4 DEF Compared, RightAnswer

LEMMA CheckEndsKeeps ==
  ASSUME BaselineInv, NEW i \in Jobs, CheckEnds(i)
  PROVE  BaselineInv'
<1>1. Types /\ JobOK(i) /\ CheckOK(i)
  BY DEF BaselineInv
<1>2. /\ pc[i] = "missing" /\ kind[i] = "check" /\ todo[i] = {}
      /\ pc' = [pc EXCEPT ![i] = "done"]
      /\ found' = [found EXCEPT ![i] = NoFiles]
      /\ base' = [base EXCEPT ![i] = NoFiles]
      /\ still' = [still EXCEPT ![i] = {}]
      /\ UNCHANGED <<disk, up, table, kind, todo, at, diff, owner, whole, quiet, trusted, calm>>
  BY <1>1 DEF CheckEnds, JobGoes, JobOK, process
<1>3. /\ pc'[i] = "done" /\ found'[i] = NoFiles /\ base'[i] = NoFiles /\ still'[i] = {}
      /\ \A j \in Jobs \ {i} : UNCHANGED Local(j)
      /\ Types'
  BY <1>1, <1>2 DEF Types, Local
<1>4. NoFiles \in [Files -> Rows \cup {NoRow}]
  BY DEF NoFiles
<1>5. JobOK(i)'
  BY <1>1, <1>2, <1>3, <1>4 DEF JobOK
<1>6. CheckOK(i)'
  BY <1>1, <1>2, <1>3 DEF CheckOK, Reported
<1>7. CreateOK(i)' /\ ~Creating(i)
  BY <1>2 DEF CreateOK, Creating
<1> QED
  BY <1>2, <1>3, <1>5, <1>6, <1>7, JobStep

-----------------------------------------------------------------------------
\* The steps that touch the table, its history or the files.

\* A create that begins empties the table and takes it over.
LEMMA ClearBaselineKeeps ==
  ASSUME BaselineInv, NEW i \in Jobs, ClearBaseline(i)
  PROVE  BaselineInv'
<1>1. Types /\ JobOK(i) /\ \A j \in Jobs : JobOK(j) /\ CheckOK(j)
  BY DEF BaselineInv
<1>2. /\ pc[i] = "clear" /\ pc' = [pc EXCEPT ![i] = "list"]
      /\ table' = NoFiles /\ owner' = {i} /\ quiet' = Files
      /\ whole' = ~ \E j \in Jobs : Creating(j)
      /\ UNCHANGED <<disk, up, kind, todo, at, found, base, diff, trusted, calm, still>>
  BY DEF ClearBaseline, JobGoes, process, checkPast
<1>3. /\ pc'[i] = "list" /\ kind[i] = "create" /\ kind'[i] = "create"
      /\ \A j \in Jobs \ {i} : UNCHANGED Local(j)
      /\ Types'
  <2>1. NoFiles \in [Files -> Rows \cup {NoRow}]
    BY DEF NoFiles
  <2> QED
    BY <1>1, <1>2, <2>1 DEF Types, Local, JobOK
<1>4. JobOK(i)' /\ CheckOK(i)'
  BY <1>1, <1>2, <1>3 DEF JobOK, CheckOK
<1>5. \A j \in Jobs \ {i} : JobOK(j)' /\ CheckOK(j)'
  <2>1. \A j \in Jobs \ {i} : UNCHANGED <<disk, up, Local(j)>>
    BY <1>2, <1>3
  <2> QED
    BY <1>1, <2>1, OtherJobs
<1>6. Creating(i)' /\ CreateOK(i)'
  BY <1>2, <1>3 DEF Creating, CreateOK
<1>7. \A j \in Jobs \ {i} : CreateOK(j)'
  <2>1. \A j \in Jobs \ {i} : Creating(j)' <=> Creating(j)
    BY <1>3 DEF Creating, Local
  <2> QED
    BY <1>2, <2>1 DEF CreateOK
<1> QED
  BY <1>3, <1>4, <1>5, <1>6, <1>7 DEF BaselineInv, TableOK

\* A save is the end of the whole work of another create.
LEMMA SaveRecordKeeps ==
  ASSUME BaselineInv, NEW i \in Jobs, NEW g \in Files, SaveRecord(i, g)
  PROVE  BaselineInv'
<1>1. /\ Types /\ JobOK(i) /\ CreateOK(i)
      /\ \A j \in Jobs : JobOK(j) /\ CheckOK(j) /\ CreateOK(j)
  BY DEF BaselineInv
<1>2. /\ pc[i] = "save" /\ g \in todo[i]
      /\ todo' = [todo EXCEPT ![i] = @ \ {g}]
      /\ \/ table' = [table EXCEPT ![g] = found[i][g]] /\ whole' = (whole /\ owner = {i})
         \/ whole' = FALSE /\ UNCHANGED table
      /\ UNCHANGED <<disk, up, pc, kind, at, found, base, diff, owner, quiet,
                     trusted, calm, still>>
  BY DEF SaveRecord, process, checkPast
<1>3. /\ todo'[i] = todo[i] \ {g} /\ kind[i] = "create"
      /\ \A j \in Jobs \ {i} : UNCHANGED Local(j)
      /\ Types'
  <2>1. kind[i] = "create" /\ found[i] \in [Files -> Rows \cup {NoRow}]
    BY <1>1, <1>2 DEF JobOK
  <2>2. table' \in [Files -> Rows \cup {NoRow}]
    BY <1>1, <1>2, <2>1 DEF Types
  <2>3. todo'[i] = todo[i] \ {g} /\ \A j \in Jobs \ {i} : UNCHANGED Local(j)
    BY <1>1, <1>2 DEF Types, Local
  <2>4. Types'
    BY <1>1, <1>2, <2>2 DEF Types
  <2> QED
    BY <2>1, <2>3, <2>4
<1>4. JobOK(i)' /\ CheckOK(i)'
  BY <1>1, <1>2, <1>3 DEF JobOK, CheckOK
<1>5. \A j \in Jobs \ {i} : JobOK(j)' /\ CheckOK(j)'
  <2>1. \A j \in Jobs \ {i} : UNCHANGED <<disk, up, Local(j)>>
    BY <1>2, <1>3
  <2> QED
    BY <1>1, <2>1, OtherJobs
<1>6. Creating(i) /\ Creating(i)'
  BY <1>2, <1>3 DEF Creating
<1>7. CASE table' = [table EXCEPT ![g] = found[i][g]] /\ whole' = (whole /\ owner = {i})
  <2>1. CreateOK(i)'
    <3> SUFFICES ASSUME whole, owner = {i}, NEW f \in quiet
                 PROVE  (IF f \in todo'[i] THEN found[i][f] ELSE table'[f]) = RowOf(disk[f])
      BY <1>2, <1>7 DEF CreateOK
    <3>1. (IF f \in todo[i] THEN found[i][f] ELSE table[f]) = RowOf(disk[f]) /\ f \in Files
      BY <1>1, <1>2, <1>6 DEF CreateOK, Types
    <3>2. table'[f] = IF f = g THEN found[i][g] ELSE table[f]
      BY <1>1, <1>7, <3>1 DEF Types
    <3> QED
      BY <1>2, <1>3, <3>1, <3>2
  <2>2. ASSUME NEW j \in Jobs \ {i}
        PROVE  CreateOK(j)'
    <3>1. Creating(j)' => Creating(j)
      BY <1>3 DEF Creating, Local
    <3>2. whole /\ owner = {i} => ~Creating(j)
      BY <1>1 DEF CreateOK
    <3> QED
      BY <1>7, <3>1, <3>2 DEF CreateOK
  <2> QED
    BY <1>3, <1>4, <1>5, <1>6, <2>1, <2>2 DEF BaselineInv, TableOK
<1>8. CASE whole' = FALSE
  BY <1>3, <1>4, <1>5, <1>8 DEF BaselineInv, TableOK, CreateOK
<1> QED
  BY <1>2, <1>7, <1>8

\* All that was found is saved.
LEMMA CreateEndsKeeps ==
  ASSUME BaselineInv, NEW i \in Jobs, CreateEnds(i)
  PROVE  BaselineInv'
<1>1. /\ Types /\ JobOK(i) /\ CreateOK(i)
      /\ \A j \in Jobs : JobOK(j) /\ CheckOK(j) /\ CreateOK(j)
  BY DEF BaselineInv
<1>2. /\ pc[i] = "save" /\ todo[i] = {} /\ pc' = [pc EXCEPT ![i] = "done"]
      /\ found' = [found EXCEPT ![i] = NoFiles]
      /\ UNCHANGED <<disk, up, table, kind, todo, at, base, diff, owner, whole, quiet,
                     trusted, calm, still>>
  BY DEF CreateEnds, JobGoes, process, history, checkPast
<1>3. /\ pc'[i] = "done" /\ found'[i] = NoFiles /\ kind[i] = "create"
      /\ \A j \in Jobs \ {i} : UNCHANGED Local(j)
      /\ Types'
  BY <1>1, <1>2 DEF Types, Local, JobOK
<1>4. JobOK(i)' /\ CheckOK(i)' /\ CreateOK(i)'
  <2>1. NoFiles \in [Files -> Rows \cup {NoRow}]
    BY DEF NoFiles
  <2> QED
    BY <1>1, <1>2, <1>3, <2>1 DEF JobOK, CheckOK, CreateOK, Creating
<1>5. \A j \in Jobs \ {i} : JobOK(j)' /\ CheckOK(j)' /\ CreateOK(j)'
  <2>1. \A j \in Jobs \ {i} : /\ UNCHANGED <<disk, up, Local(j)>>
                              /\ UNCHANGED <<disk, table, owner, quiet, Local(j)>>
    BY <1>2, <1>3
  <2> QED
    BY <1>1, <1>2, <2>1, OtherJobs, OtherCreates
<1>6. TableOK'
  <2>1. whole => \A f \in quiet : table[f] = RowOf(disk[f])
    BY <1>1, <1>2, <1>3 DEF CreateOK, Creating
  <2> QED
    BY <1>2, <2>1 DEF TableOK
<1> QED
  BY <1>3, <1>4, <1>5, <1>6 DEF BaselineInv

\* A file that changes is not among those that have not.
LEMMA FileChangesKeeps ==
  ASSUME BaselineInv, NEW g \in Files, NEW state \in DiskStates, FileChanges(g, state)
  PROVE  BaselineInv'
<1>1. Types /\ TableOK /\ \A j \in Jobs : JobOK(j) /\ CheckOK(j) /\ CreateOK(j)
  BY DEF BaselineInv
<1>2. /\ disk' = [disk EXCEPT ![g] = state] /\ quiet' = quiet \ {g}
      /\ calm' = [j \in Jobs |-> IF pc[j] = "done" THEN calm[j] ELSE calm[j] \ {g}]
      /\ still' = [j \in Jobs |-> still[j] \ {g}]
      /\ UNCHANGED <<up, table, pc, kind, todo, at, found, base, diff, owner, whole, trusted>>
  BY DEF FileChanges, process, jobVars
<1>3. Types' /\ \A f \in Files : f # g => disk'[f] = disk[f]
  BY <1>1, <1>2 DEF Types
<1>4. ASSUME NEW j \in Jobs
      PROVE  JobOK(j)' /\ CheckOK(j)' /\ CreateOK(j)' /\ (Creating(j)' <=> Creating(j))
  <2>1. /\ calm'[j] = (IF pc[j] = "done" THEN calm[j] ELSE calm[j] \ {g})
        /\ still'[j] = still[j] \ {g}
    BY <1>2
  <2>2. JobOK(j)' /\ calm[j] \subseteq Files /\ still[j] \subseteq Files
    BY <1>1, <1>2, <2>1 DEF JobOK, Missing, Both
  <2>3. \A f \in Files : f # g => /\ Scanned(j, f) <=> Scanned(j, f)'
                                  /\ Harmless(j, f) <=> Harmless(j, f)'
                                  /\ Compared(j, f) <=> Compared(j, f)'
    BY <1>2, <1>3 DEF Scanned, Harmless, Compared, Exists
  <2>4. CheckOK(j)'
    BY <1>1, <1>2, <1>3, <2>1, <2>2, <2>3 DEF CheckOK, Reported
  <2>5. CreateOK(j)' /\ (Creating(j)' <=> Creating(j))
    BY <1>1, <1>2, <1>3, <2>3 DEF CreateOK, Creating, Types
  <2> QED
    BY <2>2, <2>4, <2>5
<1>5. TableOK'
  BY <1>1, <1>2, <1>3, <1>4 DEF TableOK, Types
<1> QED
  BY <1>3, <1>4, <1>5 DEF BaselineInv

\* A crash leaves a whole table, or one that is not whole.
LEMMA CrashKeeps == BaselineInv /\ Crash => BaselineInv'
<1> SUFFICES ASSUME BaselineInv, Crash
             PROVE  BaselineInv'
  OBVIOUS
<1>1. Types /\ TableOK /\ \A j \in Jobs : JobOK(j)
  BY DEF BaselineInv
<1>2. /\ up' = FALSE
      /\ pc' = [j \in Jobs |-> "idle"] /\ todo' = [j \in Jobs |-> {}]
      /\ at' = [j \in Jobs |-> {}] /\ found' = [j \in Jobs |-> NoFiles]
      /\ base' = [j \in Jobs |-> NoFiles] /\ diff' = [j \in Jobs |-> NoDiff]
      /\ whole' = (whole /\ ~ \E j \in Jobs : Creating(j))
      /\ trusted' = [j \in Jobs |-> FALSE]
      /\ calm' = [j \in Jobs |-> {}] /\ still' = [j \in Jobs |-> {}]
      /\ UNCHANGED <<disk, table, kind, owner, quiet>>
  BY DEF Crash
<1>3. Types'
  BY <1>1, <1>2 DEF Types
<1>4. \A j \in Jobs : JobOK(j)'
  <2>1. NoFiles \in [Files -> Rows \cup {NoRow}] /\ NoDiff \in Diffs
    BY DEF NoFiles, NoDiff, Diffs
  <2> QED
    BY <1>1, <1>2, <2>1 DEF JobOK, NoDiff
<1>5. \A j \in Jobs : CheckOK(j)' /\ CreateOK(j)'
  BY <1>2 DEF CheckOK, CreateOK, Creating
<1>6. TableOK'
  BY <1>1, <1>2 DEF TableOK
<1> QED
  BY <1>3, <1>4, <1>5, <1>6 DEF BaselineInv

LEMMA OpenAgainKeeps == BaselineInv /\ OpenAgain => BaselineInv'
<1> SUFFICES ASSUME BaselineInv, OpenAgain
             PROVE  BaselineInv'
  OBVIOUS
<1>1. Types /\ TableOK /\ \A j \in Jobs : JobOK(j) /\ CheckOK(j) /\ CreateOK(j)
  BY DEF BaselineInv
<1>2. /\ up' = TRUE
      /\ UNCHANGED <<disk, table, pc, kind, todo, at, found, base, diff,
                     owner, whole, quiet, trusted, calm, still>>
  BY DEF OpenAgain, jobVars, history, checkPast
<1>3. Types' /\ TableOK'
  BY <1>1, <1>2 DEF Types, TableOK, Creating
<1>4. ASSUME NEW j \in Jobs
      PROVE  JobOK(j)' /\ CheckOK(j)' /\ CreateOK(j)'
  <2>1. JobOK(j)'
    BY <1>1, <1>2 DEF JobOK, Missing, Both
  <2>2. \A f : /\ (Scanned(j, f) <=> Scanned(j, f)') /\ (Compared(j, f) <=> Compared(j, f)')
               /\ (Harmless(j, f) <=> Harmless(j, f)')
    BY <1>2 DEF Scanned, Harmless, Compared, Exists
  <2>3. CheckOK(j)' /\ CreateOK(j)'
    BY <1>1, <1>2, <2>2 DEF CheckOK, CreateOK, Reported, Creating
  <2> QED
    BY <2>1, <2>3
<1> QED
  BY <1>3, <1>4 DEF BaselineInv

LEMMA BaselineInvStep == BaselineInv /\ [Next]_vars => BaselineInv'
<1> SUFFICES ASSUME BaselineInv, [Next]_vars
             PROVE  BaselineInv'
  OBVIOUS
<1>1. CASE UNCHANGED vars
  <2>1. UNCHANGED <<disk, table, pc, kind, todo, at, found, base, diff, up,
                    owner, whole, quiet, trusted, calm, still>>
    BY <1>1 DEF vars, jobVars, process, history, checkPast
  <2>2. \A j \in Jobs : UNCHANGED <<disk, up, Local(j)>>
                        /\ UNCHANGED <<disk, table, owner, quiet, Local(j)>>
    BY <2>1 DEF Local
  <2>3. \A j \in Jobs : JobOK(j)' /\ CheckOK(j)' /\ CreateOK(j)' /\ (Creating(j)' <=> Creating(j))
    BY <2>1, <2>2, OtherJobs, OtherCreates DEF BaselineInv
  <2> QED
    BY <2>1, <2>3 DEF BaselineInv, Types, TableOK
<1> QED
  BY <1>1, StartJobKeeps, StatementFailsKeeps, ClearBaselineKeeps, GetBaselineRecordsKeeps,
     ListFilesKeeps, LstatFileKeeps, HashFileKeeps, LookFailsKeeps, SavingStartsKeeps,
     SaveRecordKeeps, CreateEndsKeeps, CompareFoundKeeps, LookAgainKeeps, LookAgainFailsKeeps,
     CheckEndsKeeps, FileChangesKeeps, CrashKeeps, OpenAgainKeeps
     DEF Next

-----------------------------------------------------------------------------
\* Type correctness of the baseline; the lists of an answer do not contradict
\* each other.
THEOREM BaselineTypeCorrect == Spec => []BaselineTypeOK
<1>1. BaselineInv => BaselineTypeOK
  <2> SUFFICES ASSUME BaselineInv
               PROVE  BaselineTypeOK
    OBVIOUS
  <2>1. Types /\ \A j \in Jobs : JobOK(j)
    BY DEF BaselineInv
  <2>2. /\ pc \in [Jobs -> {"idle", "clear", "load", "list", "scan", "hash", "save", "missing", "done"}]
        /\ ~up => pc \in [Jobs -> {"idle"}]
    BY <2>1 DEF Types, JobOK
  <2>3. /\ kind \in [Jobs -> {"create", "check"}]
        /\ todo \in [Jobs -> SUBSET Files] /\ at \in [Jobs -> SUBSET Files]
    BY <2>1 DEF Types, JobOK
  <2>4. /\ found \in [Jobs -> [Files -> Rows \cup {NoRow}]]
        /\ base \in [Jobs -> [Files -> Rows \cup {NoRow}]]
    BY <2>1 DEF Types, JobOK
  <2>5. \A j \in Jobs : Reported(j) \subseteq Files
    BY <2>1 DEF JobOK, Diffs, Reported
  <2> QED
    BY <2>1, <2>2, <2>3, <2>4, <2>5 DEF BaselineTypeOK, Types, JobOK
<1> QED
  BY <1>1, BaselineInvInit, BaselineInvStep, PTL DEF Spec

\* No false alarm, whatever jobs and changes there are and whenever the agent
\* crashes.
THEOREM NoFalseAlarms == Spec => []NoFalseAlarm
<1>1. BaselineInv => NoFalseAlarm
  BY DEF BaselineInv, CheckOK, NoFalseAlarm, Answered
<1> QED
  BY <1>1, BaselineInvInit, BaselineInvStep, PTL DEF Spec

\* Every answer is right about the files that did not change.
THEOREM AnswersAreRight == Spec => CheckIsRight
<1>1. BaselineInv /\ [Next]_vars =>
        [\A j \in Jobs : CheckEnds(j) =>
           \A f \in still[j] : RightAnswer(diff[j], f, base[j][f], disk[f])]_vars
  BY AnswerIsRight
<1> QED
  BY <1>1, BaselineInvInit, BaselineInvStep, PTL DEF Spec, CheckIsRight

\* Once a create that no crash and no other job disturbed has ended, the table
\* describes every file that has not changed since it began, and goes on to:
\* TableOK.
THEOREM WholeCreateIsSnapshot == Spec => []TableOK
<1>1. BaselineInv => TableOK
  BY DEF BaselineInv
<1> QED
  BY <1>1, BaselineInvInit, BaselineInvStep, PTL DEF Spec

=============================================================================
