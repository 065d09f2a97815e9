------------------------------ MODULE FsMonitor ------------------------------
(***************************************************************************)
(* The filesystem monitor (internal/filesystem/monitor.go): a watch on each*)
(* directory below the monitored paths, added by walks of the tree, and a  *)
(* loop that publishes what the watches notice.  The tree changes at any   *)
(* moment, also in the middle of a walk.                                   *)
(*                                                                         *)
(* A watch belongs to the object at a path, not to the path: it goes when  *)
(* the object is removed.  watchedDirs holds paths, and nothing is ever    *)
(* taken out of it.  Directories are not renamed, links are never made.    *)
(***************************************************************************)
EXTENDS Scanner

CONSTANTS Paths,          \* the paths of interest: the roots and what is below them,
                          \* with the directories on the way
          InitialTrees,
          MaxChanges,     \* bound on the changes of the tree in one run
          MaxFailures,    \* bound on the calls that fail in one run, the limit apart
          QueueCapacity,  \* fs.inotify.max_queued_events
          WatchLimit      \* fs.inotify.max_user_watches

ASSUME FsAssumption ==
  /\ Roots \subseteq Paths
  /\ Paths \subseteq Seq(STRING) \ {<<>>}
  /\ InitialTrees \subseteq [Paths -> {"absent", "file", "dir", "link"}]
  /\ {MaxChanges, MaxFailures, QueueCapacity, WatchLimit} \subseteq Nat
  /\ \A i \in DOMAIN ExcludedPaths : excludedPaths[i] \in Seq(STRING)
  /\ \A root \in Roots, p \in Paths : IsPrefix(root, p) =>
       /\ Way(root, p) \subseteq Paths
       /\ \A t \in InitialTrees : t[p] # "absent" => \A q \in Way(root, p) : t[q] = "dir"

VARIABLES
  tree, changes,
  failures,     \* how many calls have failed that the state did not make fail
  watched,      \* the paths whose present object has a watch
  queue,        \* what the watches have noticed and the loop has not taken
  watchedDirs,
  loop,         \* "new", "starting", "idle", "busy", "walking" or "exited"
  stopping,     \* "no", "cancelled", or "closed" when the watcher is, too
  roots,        \* the roots Start has still to walk
  walk,         \* the paths the walk has found and not yet visited
  reading,      \* the directory the callback is called for ...
  names,        \* ... and what was in it when Walk read it before
  current,      \* the event the loop handles
  published,
  \* History, for the properties:
  noticed,      \* what was ever put into the queue, in order
  unwatched,    \* paths whose watch has gone with the object it was on
  missed,       \* paths that came without an event and were not visited since
  refused,      \* paths whose watch the kernel has refused
  unread        \* paths the monitor could not look at or read, and has not since

treeVars == <<tree, changes, noticed>>
walkVars == <<watchedDirs, roots, walk, reading, names>>
failVars == <<failures, unread>>
fsVars   == <<treeVars, walkVars, failVars, watched, queue, loop, stopping, current,
              published, unwatched, missed, refused>>

Overflow == [op |-> "Overflow", path |-> <<>>]

\* The cases of the switch in eventLoop; a Rename bears the old path.
EventType ==
  [ Create |-> "FILE_CREATED", Write |-> "FILE_MODIFIED", Remove |-> "FILE_DELETED",
    Rename |-> "FILE_RENAMED", Chmod |-> "FILE_PERMISSION_CHANGED" ]
FsEvents == [op : DOMAIN EventType, path : Paths]

FsTypeOK ==
  /\ tree \in [Paths -> {"absent", "file", "dir", "link"}]
  /\ changes \in 0..MaxChanges
  /\ watched \subseteq { p \in Paths : tree[p] # "absent" }
  /\ queue \in Seq(FsEvents \cup {Overflow}) /\ Len(queue) <= QueueCapacity + 1
  /\ watchedDirs \subseteq Paths
  /\ loop \in {"new", "starting", "idle", "busy", "walking", "exited"}
  /\ stopping \in {"no", "cancelled", "closed"}
  /\ roots \subseteq Roots
  /\ walk \subseteq Paths /\ reading \subseteq Paths /\ names \subseteq Paths
  /\ current \in FsEvents \cup {Overflow}
  /\ unwatched \subseteq watchedDirs
  /\ missed \subseteq Paths /\ refused \subseteq Paths /\ unread \subseteq Paths
  /\ failures \in 0..MaxFailures

FsInit ==
  /\ tree \in InitialTrees
  /\ changes = 0
  /\ watched = {}
  /\ queue = <<>>
  /\ watchedDirs = {}
  /\ loop = "new"
  /\ stopping = "no"
  /\ roots = {} /\ walk = {} /\ reading = {} /\ names = {}
  /\ current = Overflow
  /\ published = <<>>
  /\ noticed = <<>>
  /\ unwatched = {}
  /\ missed = {} /\ refused = {} /\ unread = {}
  /\ failures = 0

-----------------------------------------------------------------------------
\* The file system and its watches.  When the queue is full the kernel puts one
\* overflow into it and drops what follows.

Parent(p) == Front(p)
Notices(p) == Parent(p) \in watched

\* What of the events of one change comes through.
Queued(events) ==
  LET room == QueueCapacity - Len(queue)
  IN  SubSeq(events, 1, IF room < Len(events) THEN room ELSE Len(events))

\* ... and the overflow that tells of the first that does not.
Added(events) ==
  IF Queued(events) = events \/ Len(queue) > QueueCapacity
  THEN Queued(events) ELSE Queued(events) \o <<Overflow>>

Notify(events) ==
  /\ queue' = queue \o Added(events)
  /\ noticed' = noticed \o Added(events)

Event(op, p) == IF Notices(p) THEN <<[op |-> op, path |-> p]>> ELSE <<>>

CanHold(p) == Parent(p) \in Paths => tree[Parent(p)] = "dir"

Change ==
  /\ changes < MaxChanges
  /\ changes' = changes + 1
  /\ UNCHANGED <<walkVars, loop, stopping, current, published, failures>>

\* A path that comes when no event tells of it though its directory is watched, or
\* while that directory is being read and not yet watched, or in the place of a
\* root, and that no walk has before it.
ToVisit == roots \cup walk \cup reading \cup names

ComesUnseen(p) ==
  /\ Queued(Event("Create", p)) = <<>> /\ p \notin ToVisit
  /\ Notices(p) \/ Parent(p) \in reading \/ (p \in Roots /\ loop # "new")

Make(p, kind) ==
  /\ Change
  /\ tree[p] = "absent" /\ CanHold(p)
  /\ tree' = [tree EXCEPT ![p] = kind]
  /\ Notify(Event("Create", p))
  /\ missed' = IF ComesUnseen(p) THEN missed \cup {p} ELSE missed
  /\ UNCHANGED <<watched, unwatched, refused, unread>>

\* A file, or a directory that is empty.
Unlink(p) ==
  /\ Change
  /\ tree[p] # "absent" /\ Children(tree, p) = {}
  /\ tree' = [tree EXCEPT ![p] = "absent"]
  /\ Notify(IF p \in watched THEN <<[op |-> "Remove", path |-> p]>> ELSE Event("Remove", p))
  /\ watched' = watched \ {p}
  /\ unwatched' = unwatched \cup (watched \cap {p})
  /\ missed' = missed \ {p}
  /\ refused' = refused \ {p}
  /\ unread' = unread \ {p}

RenameFile(p, q) ==
  /\ Change
  /\ tree[p] = "file"
  /\ tree[q] = "absent" /\ CanHold(q)
  /\ tree' = [tree EXCEPT ![p] = "absent", ![q] = "file"]
  /\ Notify(Event("Rename", p) \o Event("Create", q))
  /\ watched' = watched \ {p}
  /\ unwatched' = unwatched \cup (watched \cap {p})
  /\ missed' = missed \ {p}
  /\ UNCHANGED <<refused, unread>>

Touch(p, op) ==
  /\ Change
  /\ tree[p] = "file" /\ Notices(p)
  /\ Notify(Event(op, p))
  /\ UNCHANGED <<tree, watched, unwatched, missed, refused, unread>>

-----------------------------------------------------------------------------
\* addRecursive: Walk reads the names in a directory, calls the callback, which
\* adds the watch, and goes on to what it read.

Walking  == walk # {} \/ reading # {}
WalkStep == UNCHANGED <<treeVars, queue, loop, stopping, roots, current, published, unwatched>>

Fails ==
  /\ failures < MaxFailures
  /\ failures' = failures + 1

Visits(p) ==
  /\ WalkStep
  /\ reading = {} /\ p \in walk
  /\ walk' = walk \ {p}
  /\ UNCHANGED <<watched, watchedDirs, refused>>

\* Fault for the mutation runs: excluded directories are not left out.
VisitExcludedToo(p) ==
  /\ Visits(p)
  /\ missed' = missed \ {p} /\ unread' = unread \ {p}
  /\ IF tree[p] = "dir"
     THEN reading' = {p} /\ names' = Children(tree, p)
     ELSE UNCHANGED <<reading, names>>
  /\ UNCHANGED failures

Visit(p) ==
  /\ Visits(p)
  /\ missed' = missed \ {p} /\ unread' = unread \ {p}
  /\ IF tree[p] = "dir" /\ ~IsExcluded(p)
     THEN reading' = {p} /\ names' = Children(tree, p)
     ELSE UNCHANGED <<reading, names>>
  /\ UNCHANGED failures

\* The callback is called with the error of Lstat or of reading the directory, and
\* has nothing done: no watch, and nothing below.  For anything else than such a
\* directory an error makes no difference.
VisitFails(p) ==
  /\ Visits(p) /\ Fails
  /\ tree[p] = "dir" /\ ~IsExcluded(p)
  /\ unread' = unread \cup {p}
  /\ UNCHANGED <<reading, names, missed>>

\* watcher.Add, unless watchedDirs has the path; its error is ignored.
Calls(p) == p \notin watchedDirs /\ tree[p] # "absent" /\ stopping # "closed"

\* Fault for the mutation runs: the path gets a watch though nothing is there.
AddOneToNothing(p) ==
  LET works == p \notin watchedDirs /\ stopping # "closed" /\ Cardinality(watched) < WatchLimit
  IN  /\ watched' = IF works THEN watched \cup {p} ELSE watched
      /\ watchedDirs' = IF works THEN watchedDirs \cup {p} ELSE watchedDirs
      /\ UNCHANGED refused

AddOne(p) ==
  LET room == Cardinality(watched) < WatchLimit IN
  /\ watched' = IF Calls(p) /\ room THEN watched \cup {p} ELSE watched
  /\ watchedDirs' = IF Calls(p) /\ room THEN watchedDirs \cup {p} ELSE watchedDirs
  /\ refused' = IF Calls(p) /\ ~room THEN refused \cup {p} ELSE refused

GoesOn(p) ==
  /\ WalkStep
  /\ p \in reading
  /\ reading' = {} /\ names' = {}
  /\ UNCHANGED <<missed, unread>>

\* Fault for the mutation runs: for a new directory the loop calls watcher.Add
\* instead of addRecursive.
AddWatchAlone(p) ==
  /\ GoesOn(p)
  /\ walk' = IF loop = "walking" THEN walk ELSE walk \cup names
  /\ AddOne(p)
  /\ UNCHANGED failures

AddWatch(p) ==
  /\ GoesOn(p)
  /\ walk' = walk \cup names
  /\ AddOne(p)
  /\ UNCHANGED failures

\* The kernel can refuse a watch for other reasons than the limit.
AddFails(p) ==
  /\ GoesOn(p) /\ Fails
  /\ Calls(p)
  /\ walk' = walk \cup names
  /\ refused' = refused \cup {p}
  /\ UNCHANGED <<watched, watchedDirs>>

-----------------------------------------------------------------------------
\* Monitor.Start walks the roots before it starts the loop.

LoopGoes(from, to) ==
  /\ loop = from /\ loop' = to
  /\ UNCHANGED <<treeVars, watched, watchedDirs, reading, names, stopping,
                 unwatched, missed, refused>>

LoopStep(from, to) == LoopGoes(from, to) /\ UNCHANGED failVars

Start ==
  /\ LoopStep("new", "starting")
  /\ roots' = Roots
  /\ UNCHANGED <<walk, queue, current, published>>

WalkRoot(root) ==
  /\ LoopStep("starting", "starting")
  /\ ~Walking /\ root \in roots
  /\ roots' = roots \ {root}
  /\ walk' = IF IsExcluded(root) THEN {} ELSE {root}
  /\ UNCHANGED <<queue, current, published>>

StartLoop ==
  /\ LoopStep("starting", "idle")
  /\ ~Walking /\ roots = {}
  /\ UNCHANGED <<roots, walk, queue, current, published>>

\* eventLoop: select takes an event or an error of the watcher.
TakeEvent ==
  /\ LoopStep("idle", "busy")
  /\ queue # <<>>
  /\ current' = Head(queue)
  /\ queue' = Tail(queue)
  /\ UNCHANGED <<roots, walk, published>>

\* Fault for the mutation runs: an error of the watcher ends the loop.
IgnoreOrGiveUp ==
  /\ LoopStep("busy", IF current = Overflow THEN "exited" ELSE "idle")
  /\ current = Overflow \/ IsExcluded(current.path)
  /\ UNCHANGED <<roots, walk, queue, current, published>>

\* An error, or an excluded path.
Ignore ==
  /\ LoopStep("busy", "idle")
  /\ current = Overflow \/ IsExcluded(current.path)
  /\ UNCHANGED <<roots, walk, queue, current, published>>

\* Lstat says that a new directory is (still) there.
IsNewDirectory == current.op = "Create" /\ tree[current.path] = "dir"

Publishes == published' = Append(published, current)

PublishEvent ==
  /\ LoopStep("busy", "idle")
  /\ current # Overflow /\ ~IsExcluded(current.path) /\ ~IsNewDirectory
  /\ Publishes
  /\ UNCHANGED <<roots, walk, queue, current>>

\* Lstat fails: the directory is not walked.
PublishUnread ==
  /\ LoopGoes("busy", "idle") /\ Fails
  /\ current # Overflow /\ ~IsExcluded(current.path) /\ IsNewDirectory
  /\ unread' = unread \cup {current.path}
  /\ Publishes
  /\ UNCHANGED <<roots, walk, queue, current>>

EnterDirectory ==
  /\ LoopStep("busy", "walking")
  /\ current # Overflow /\ ~IsExcluded(current.path) /\ IsNewDirectory
  /\ walk' = {current.path}
  /\ UNCHANGED <<roots, queue, current, published>>

\* Fault for the mutation runs: only the watch is added.
PublishNoDirectory ==
  /\ LoopStep("walking", "idle")
  /\ ~Walking
  /\ UNCHANGED <<roots, walk, queue, current, published>>

PublishDirectory ==
  /\ LoopStep("walking", "idle")
  /\ ~Walking
  /\ Publishes
  /\ UNCHANGED <<roots, walk, queue, current>>

\* Fault for the mutation runs: Stop is heeded in the middle of an event.
LoopExitsMidway ==
  /\ LoopStep(loop, "exited")
  /\ loop \in {"idle", "busy"}
  /\ stopping # "no"
  /\ UNCHANGED <<roots, walk, queue, current, published>>

LoopExits ==
  /\ LoopStep("idle", "exited")
  /\ stopping # "no"
  /\ UNCHANGED <<roots, walk, queue, current, published>>

\* Monitor.Stop; the kernel drops the watches and what they have noticed.
Cancel ==
  /\ stopping = "no"
  /\ loop \notin {"new", "starting"}
  /\ stopping' = "cancelled"
  /\ UNCHANGED <<treeVars, walkVars, failVars, watched, queue, loop, current, published,
                 unwatched, missed, refused>>

CloseWatcher ==
  /\ stopping = "cancelled"
  /\ stopping' = "closed"
  /\ watched' = {}
  /\ queue' = <<>>
  /\ UNCHANGED <<treeVars, walkVars, failVars, loop, current, published,
                 unwatched, missed, refused>>

-----------------------------------------------------------------------------
Environment ==
  \/ \E p \in Paths, kind \in {"file", "dir"} : Make(p, kind)
  \/ \E p \in Paths : Unlink(p)
  \/ \E p, q \in Paths : RenameFile(p, q)
  \/ \E p \in Paths, op \in {"Write", "Chmod"} : Touch(p, op)

WalkNext == \E p \in Paths : Visit(p) \/ VisitFails(p) \/ AddWatch(p) \/ AddFails(p)
Handle   == Ignore \/ PublishEvent \/ PublishUnread \/ EnterDirectory \/ PublishDirectory

FsNext ==
  \/ Environment
  \/ WalkNext
  \/ Start \/ (\E root \in Roots : WalkRoot(root)) \/ StartLoop
  \/ TakeEvent \/ Handle \/ LoopExits
  \/ Cancel \/ CloseWatcher

FsSpec == FsInit /\ [][FsNext]_fsVars

\* The goroutines run, and select is not biased: a loop that could take an event
\* or the end of its context again and again does take it.
FsFairness ==
  /\ WF_fsVars(WalkNext)
  /\ WF_fsVars(Start \/ (\E root \in Roots : WalkRoot(root)) \/ StartLoop)
  /\ WF_fsVars(Handle)
  /\ WF_fsVars(CloseWatcher)
  /\ SF_fsVars(TakeEvent)
  /\ SF_fsVars(LoopExits)

FsFairSpec == FsSpec /\ FsFairness

-----------------------------------------------------------------------------
Watchable(p) == tree[p] = "dir" /\ ~IsExcluded(p) /\ (p \in Roots \/ Notices(p))

AtRest == loop = "idle" /\ queue = <<>> /\ stopping = "no"

\* What the loop will look at as a new directory.
Announced ==
  { e.path : e \in { event \in { queue[i] : i \in DOMAIN queue }
                               \cup (IF loop = "busy" THEN {current} ELSE {}) :
                     event.op = "Create" } }

\* A directory below a watched one, or a root, is watched, or about to be, but
\* for these reasons: there was a watch at this path, which has gone with another
\* directory; it came unseen, when its parent had been read and was not watched
\* yet, when the queue was full, or in the place of a root that had been walked;
\* the kernel refused the watch; the monitor could not look at it or read it.
BlindSpotsAreKnown ==
  loop # "new" /\ stopping # "closed" =>
    \A p \in Paths :
      Watchable(p) =>
        p \in watched \cup ToVisit \cup Announced
             \cup unwatched \cup missed \cup refused \cup unread

\* What is watched is below a monitored path, not excluded, and known as watched.
WatchesAreKept ==
  \A p \in watched :
    /\ p \in watchedDirs
    /\ ~IsExcluded(p)
    /\ \E root \in Roots : IsPrefix(root, p)

\* How many of the noticed events the loop has in hand, and is done with.
InHand == IF loop \in {"busy", "walking"} THEN 1 ELSE 0
Done   == Len(noticed) - Len(queue) - InHand

\* The places of those among the first n that are to be published.
Wanted(e)    == e # Overflow /\ ~IsExcluded(e.path)
WantedIn(n)  == { i \in 1..n : Wanted(noticed[i]) }

\* The events of the watches are published once each, in order, but for those of
\* excluded paths; a walk in between makes no difference.  What is noticed is
\* published, in hand or in the queue: the published ones are the wanted ones
\* among those the loop is done with.
EachEventIsPublishedOnce ==
  stopping # "closed" =>
    /\ Len(published) = Cardinality(WantedIn(Done))
    /\ \A i \in WantedIn(Done) : published[Cardinality(WantedIn(i))] = noticed[i]
    /\ InHand = 1 => current = noticed[Done + 1]
    /\ \A k \in 1..Len(queue) : queue[k] = noticed[Done + InHand + k]

\* A scan of the present tree in which these paths fail, with this limit of depth
\* (0: none): each file down to that depth comes back, once for each monitored
\* path above it, unless it, that path or something on the way is excluded or
\* fails.  Nothing else comes back, but for files in the directories at the limit,
\* whose names the limit does not keep out, and a monitored path that is a link.
ScanIsRight(failing, depth) ==
  LET scan == ScanDirectories(tree, failing, depth) IN
  \A i \in DOMAIN MonitoredPaths, p \in Paths :
    LET root    == monitoredPaths[i]
        below   == Len(p) - Len(root)
        reached == /\ IsPrefix(root, p) /\ ~IsExcluded(root) /\ ~IsExcluded(p)
                   /\ (Way(root, p) \cup {p}) \cap failing = {}
    IN  /\ reached /\ tree[p] = "file" /\ (depth > 0 => below <= depth) => <<i, p>> \in scan
        /\ <<i, p>> \in scan =>
             /\ reached /\ tree[p] \notin {"absent", "dir"}
             /\ tree[p] = "link" => p = root
             /\ depth > 0 => below <= depth + 1

\* The scans of every tree that can come about, in which at most one path fails;
\* TLC looks at each tree once, at rest.
ScanFindsEachFile ==
  AtRest => \A depth \in 0..2, failing \in {{}} \cup { {p} : p \in Paths } :
              ScanIsRight(failing, depth)

\* The loop is one of those the agent starts, cancels and waits for.
Loop == INSTANCE MonitorLoop WITH
  loop <- CASE loop \in {"new", "starting"} -> "none"
            [] loop \in {"busy", "walking"} -> "busy"
            [] OTHER -> loop,
  cancelled <- stopping # "no"
FsImplementsLoop == Loop!LoopSpec

\* Whatever changes, the monitor comes to the end of its work, or of its loop.
MonitorComesToRest == (loop # "new") ~> (AtRest \/ (loop = "exited" /\ stopping # "no"))

-----------------------------------------------------------------------------
\* ARCHITECTURE.md: "event-driven file change monitoring, recursive directory
\* listening".  At rest, a directory whose creation was noticed below a watched
\* directory is watched.
DocNewDirectoriesAreWatched ==
  AtRest =>
    \A p \in Paths : Watchable(p) => p \in watched \cup missed \cup refused \cup unread

=============================================================================
