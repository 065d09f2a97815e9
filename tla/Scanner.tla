------------------------------- MODULE Scanner -------------------------------
(***************************************************************************)
(* The scanner (internal/filesystem/scanner.go): which paths are excluded, *)
(* and which files a scan of the monitored paths returns.                  *)
(*                                                                         *)
(* An absolute clean path is the sequence of its names, <<>> being "/".  A *)
(* path of the configuration may be relative and hold "", "." and "..".  A *)
(* tree gives every path of interest its kind: "absent", "dir", "link" or, *)
(* for all that is neither, "file".  `failing' holds the paths that cannot *)
(* be looked at (Lstat) or, if they are directories, cannot be read.       *)
(***************************************************************************)
EXTENDS Naturals, FiniteSets, SequencesExt

CONSTANTS MonitoredPaths, ExcludedPaths,  \* as configured, in order
          WorkingDir                      \* the names of the working directory

\* filepath.Abs, which cleans the path lexically.
Cleaned(names) ==
  FoldLeft(LAMBDA clean, name :
             IF name \in {"", "."} THEN clean
             ELSE IF name # ".." THEN Append(clean, name)
             ELSE IF clean = <<>> THEN clean ELSE Front(clean),
           <<>>, names)

Abs(path) == Cleaned(IF path.absolute THEN path.names ELSE WorkingDir \o path.names)

\* NewScanner
monitoredPaths == [i \in DOMAIN MonitoredPaths |-> Abs(MonitoredPaths[i])]
excludedPaths  == [i \in DOMAIN ExcludedPaths |-> Abs(ExcludedPaths[i])]

Roots == { monitoredPaths[i] : i \in DOMAIN MonitoredPaths }

\* An excluded path and what is below it; nothing is below "/", whose prefix
\* would be "//".
IsExcluded(path) ==
  \E i \in DOMAIN ExcludedPaths :
    \/ path = excludedPaths[i]
    \/ excludedPaths[i] # <<>> /\ IsStrictPrefix(excludedPaths[i], path)

-----------------------------------------------------------------------------
Children(tree, p) ==
  { q \in DOMAIN tree : tree[q] # "absent" /\ q # <<>> /\ Front(q) = p }

\* The number of elements of filepath.Rel(root, p), which is "." for the root.
Depth(root, p) == IF p = root THEN 1 ELSE Len(p) - Len(root)

\* Fault for the mutation runs: the depth is reached one level early.
SkipsDirEarly(root, p, maxDepth) ==
  IF IsExcluded(p) THEN p # root ELSE maxDepth > 0 /\ Depth(root, p) >= maxDepth

\* The callback answers SkipDir for a directory.
SkipsDir(root, p, maxDepth) ==
  IF IsExcluded(p) THEN p # root ELSE maxDepth > 0 /\ Depth(root, p) > maxDepth

\* What lies on the way from a root down to a path below it, the root included.
Way(root, p) == { SubSeq(p, 1, n) : n \in Len(root)..(Len(p) - 1) }

\* filepath.Walk calls the callback without an error for the root and for all that
\* is in a directory it was called for so and did not skip.
Visited(tree, failing, root, maxDepth) ==
  { p \in DOMAIN tree \ failing :
      /\ tree[p] # "absent" /\ IsPrefix(root, p)
      /\ \A q \in Way(root, p) :
           q \in DOMAIN tree \ failing /\ tree[q] = "dir" /\ ~SkipsDir(root, q, maxDepth) }

\* One turn of the loop over the monitored paths.  What fails is left out without
\* a word.  A root that is a link is returned, a link below it is not.
ScanRoot(tree, failing, root, maxDepth) ==
  IF IsExcluded(root) \/ tree[root] = "absent" \/ root \in failing THEN {}
  ELSE IF tree[root] # "dir" THEN {root}
  ELSE { p \in Visited(tree, failing, root, maxDepth) : tree[p] = "file" /\ ~IsExcluded(p) }

\* What ScanDirectories returns, each file with the turn it comes from.
ScanDirectories(tree, failing, maxDepth) ==
  UNION { {i} \X ScanRoot(tree, failing, monitoredPaths[i], maxDepth)
            : i \in DOMAIN MonitoredPaths }

=============================================================================
