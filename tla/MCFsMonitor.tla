----------------------------- MODULE MCFsMonitor -----------------------------
(***************************************************************************)
(* Two monitored paths, one below the other, an excluded directory, and    *)
(* three levels below the outer root.                                      *)
(***************************************************************************)
EXTENDS FsMonitor

Raw(isAbs, parts) == [absolute |-> isAbs, names |-> parts]

MCWorkingDir == <<"w">>

\* The outer root is relative, the inner one and the exclusion are not clean.
MCMonitoredPaths ==
  << Raw(FALSE, <<".", "r">>), Raw(TRUE, <<"w", "x", "..", "r", "a">>) >>
MCExcludedPaths == << Raw(TRUE, <<"w", "r", "x", "">>), Raw(TRUE, <<>>) >>

r  == <<"w", "r">>
a  == <<"w", "r", "a">>
b  == <<"w", "r", "a", "b">>
c  == <<"w", "r", "a", "b", "c">>
x  == <<"w", "r", "x">>

MCPaths == {r, a, b, c, x}

Tree(ofA, ofB, ofX) ==
  [p \in MCPaths |-> CASE p = r -> "dir" [] p = a -> ofA [] p = b -> ofB [] p = x -> ofX
                       [] OTHER -> "absent"]

\* The outer root alone; a full tree; a link in the place of the inner root.
MCInitialTrees ==
  { Tree("absent", "absent", "absent"), Tree("dir", "dir", "dir"), Tree("link", "absent", "absent") }

=============================================================================
