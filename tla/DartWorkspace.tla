-------------------------------- MODULE DartWorkspace --------------------------------
(* The packages of a Dart repository and the files opened so that the language      *)
(* server sees the callers of a change in other packages                            *)
(* (reverse_dependency_anchors). Paths are sequences of names; what a manifest      *)
(* says is given by Pkg.                                                            *)
EXTENDS Naturals, FiniteSets, SequencesExt, FiniteSetsExt

CONSTANTS
  Packages,     \* the pubspec manifests of the inventory, sorted by directory
  Pkg,          \* what each says and its size: [dir, name, paths, uses, members, joins, bytes]
  Dir,          \* the directory of every file
  Library,      \* 0 for lib/<name>.dart, 1 for lib/main.dart, 2 for other handwritten lib files
  PackageLimit, \* manifests read at most (DART_WORKSPACE_PACKAGE_LIMIT)
  ManifestBytes \* bytes of them at most (max_manifest_bytes)

\* _packages: the manifests that are read, up to the first one beyond the bytes
BytesUpTo(i) == SumFunctionOnSet([j \in DOMAIN Packages |-> Pkg[Packages[j]].bytes], 1 .. i)
Known == {Packages[i] : i \in {j \in DOMAIN Packages : j <= PackageLimit /\ BytesUpTo(j) <= ManifestBytes}}

\* The packages reached over next, a function from a package to a set of packages
Reach(from, next) ==
  LET within[n \in 0 .. Cardinality(Known)] ==
        IF n = 0 THEN from ELSE within[n - 1] \cup UNION {next[p] : p \in within[n - 1]}
  IN within[Cardinality(Known)]

\* _matches_workspace_member: a proper subdirectory that the owner names
Declares(o) ==
  {c \in Known \ {o} : Pkg[c].joins /\ \E m \in Pkg[o].members :
                          m # << >> /\ Pkg[c].dir = Pkg[o].dir \o m}

\* _assign_workspace_roots: a package belongs to a workspace when exactly one outermost
\* workspace reaches it
Outermost == {w \in Known : Declares(w) # {} /\ \A o \in Known : w \notin Declares(o)}
WorkspaceOf(p) == {w \in Outermost : p \in Reach({w}, [o \in Known |-> Declares(o)])}
SameWorkspace(p, q) == Cardinality(WorkspaceOf(p)) = 1 /\ WorkspaceOf(p) = WorkspaceOf(q)

\* The packages that depend on d: by path, or by a name only d has in the workspace
UsedBy(d) ==
  {p \in Known :
     \/ Pkg[d].dir \in Pkg[p].paths
     \/ /\ p # d /\ SameWorkspace(p, d) /\ Pkg[d].name \in Pkg[p].uses
        /\ \A q \in Known : SameWorkspace(p, q) /\ Pkg[q].name = Pkg[d].name => q = d}

\* _containing_package: the deepest one
Containing(f) ==
  LET around == {p \in Known : IsPrefix(Pkg[p].dir, Dir[f])}
  IN {p \in around : \A q \in around : Len(Pkg[q].dir) <= Len(Pkg[p].dir)}

Dependents(changed) ==
  LET own == UNION {Containing(f) : f \in changed} IN Reach(own, [d \in Known |-> UsedBy(d)]) \ own

\* _package_anchor: a handwritten library of the package, among the files of the inventory
\* small enough to be opened, that is not changed itself
AnchorOf(p, inventory, changed) ==
  LET libs == {f \in inventory \ changed : f \in DOMAIN Library /\ IsPrefix(Pkg[p].dir \o <<"lib">>, Dir[f])}
      best == {f \in libs : \A g \in libs :
                 \/ Library[f] < Library[g]
                 \/ Library[f] = Library[g] /\ Len(Dir[f]) <= Len(Dir[g])}
  IN IF best = {} THEN {} ELSE {CHOOSE f \in best : TRUE}

\* reverse_dependency_anchors: one file of each dependent package, up to the limit; each
\* with the position of its package, by which they are read
Anchors(inventory, changed, limit) ==
  LET all == {a \in (1 .. Len(Packages)) \X inventory :
                /\ Packages[a[1]] \in Dependents(changed)
                /\ a[2] \in AnchorOf(Packages[a[1]], inventory, changed)}
  IN {a \in all : Cardinality({b \in all : b[1] < a[1]}) < limit}
=============================================================================
