---- MODULE MCDartAnalysis ----
(* Runs one after the other over two packages: core with the files a and b, the source h that *)
(* the review ignores and gen in an ignored directory, and app, which depends on core by path  *)
(* and offers main as an anchor. opts includes lints, which includes more in version 1; config *)
(* names a path package outside, whose file is out, in version 1. The manifest of the package  *)
(* old, which depends on core too, is beyond the bytes that are read.                          *)
EXTENDS DartAnalysis, TLC

MCVersions == {0, 1}
MCFiles == <<"a", "b", "config", "gen", "h", "lints", "main", "more", "opts", "out", "sdk">>
MCEditable == {"a", "lints", "config"}
MCListed == {"a", "b", "main"}
MCInputs == {"a", "b", "main"}
MCSources == {"a", "b", "gen", "h", "main", "opts"}
MCIgnored == {"gen"}
MCImplicit == {"config"}
MCOutside == {"out"}
MCOptionsFiles == {"opts"}
MCIncluded == {"lints", "more"}
MCConfigs == {"config"}
MCIncludeOf(f, v) == IF f = "opts" THEN "lints" ELSE IF f = "lints" /\ v = 1 THEN "more" ELSE "none"
MCEscapes(f, v) == f = "config" /\ v = 1
MCSize(f, v) == IF f = "a" THEN 1 + v ELSE 1
MCChanges == {{"b"}, {"a", "b"}}
MCLimits == {[inputs |-> 9, files |-> 2, bytes |-> 2, anchors |-> 1, anchorFile |-> 1, anchorBytes |-> 1]}
MCPackages == <<"app", "core", "old">>
MCPkg ==
  [p \in {"app", "core", "old"} |->
     [dir |-> <<p>>, name |-> p, paths |-> IF p = "core" THEN {} ELSE {<<"core">>},
      uses |-> IF p = "core" THEN {} ELSE {"core"}, members |-> {}, joins |-> FALSE,
      bytes |-> IF p = "old" THEN 2 ELSE 1]]
MCDir ==
  [f \in Range(MCFiles) |-> IF f \in {"a", "b", "gen", "h"} THEN <<"core", "lib">>
                            ELSE IF f = "main" THEN <<"app", "lib">> ELSE << >>]
MCLibrary == ("a" :> 2) @@ ("b" :> 2) @@ ("main" :> 1)
====
