---------------------------- MODULE TypeScriptInventory ---------------------------
(* The inventory of the repository that the TypeScript analyzer takes before it   *)
(* starts Node (analyzers/typescript.py).  The paths are supplied by the caller,  *)
(* or streamed from `git ls-files` by a reader thread, or found by a walk of the  *)
(* file system when Git cannot be used; then the configurations reached through   *)
(* "extends" are added, each candidate checked against .gitignore by a worker     *)
(* thread over one `git check-ignore` process.  Every loop checks one deadline.   *)
(*                                                                                *)
(* Abstractions: a path is a value; a chunk of the output of Git is one path; the *)
(* candidates of an "extends" value are data (a sequence of paths, the same name  *)
(* with .json added last); an entry of the JSON tree of package exports is a node *)
(* or a target; the clock is a number of units that are left; what goes wrong     *)
(* (a process that cannot start or fails, a file or directory that cannot be      *)
(* read, an answer that is late) is limited to MaxTrouble in a run.               *)
EXTENDS InventoryRetention

CONSTANTS
  Dirs, RootDir,  \* directories of the repository, the root
  Tree,           \* directory -> the sequence of its entries
  Ignored,        \* paths and directories that the ignore patterns match
  Hidden,         \* paths that .gitignore hides
  Tracked,        \* paths that are in the index of Git
  Existing,       \* paths that are regular files, no link on the way
  Extends,        \* configuration -> its "extends" values
  PackageJson,    \* package.json -> what it says
  NoPath,         \* no path: the end of the stream, or nothing asked
  DirBytes,       \* directory -> its encoded length
  PathOrder,      \* all paths, sorted
  Orders,         \* the orders in which a list of paths may come
  Limits,         \* the limits a run may have
  MaxTrouble

ASSUME InventoryAssumption ==
  /\ PathOrder \in Seq(Paths) /\ Range(PathOrder) = Paths
  /\ \A i, j \in DOMAIN PathOrder : PathOrder[i] = PathOrder[j] => i = j
  /\ Existing \subseteq Paths /\ NoPath \notin Paths /\ MaxTrouble \in Nat
  /\ \A l \in Limits : l.entries \in Nat /\ l.capacity \in Nat /\ l.bytes \in Nat

\* No two of the paths that are listed have the same key (Git lists the stages of an
\* unmerged path one by one: there is no unresolved merge), and no entry is in two
\* directories.
ASSUME ListingAssumption ==
  /\ \A o \in Orders : o \in Seq(Paths) /\ \A i, j \in DOMAIN o : Key[o[i]] = Key[o[j]] => i = j
  /\ RootDir \in Dirs /\ Dirs \cap Paths = {} /\ Tree \in [Dirs -> Seq(Dirs \cup Paths)]
  /\ \A d \in Dirs, e \in Dirs : \A i \in DOMAIN Tree[d], j \in DOMAIN Tree[e] :
       /\ Tree[d][i] # RootDir
       /\ Tree[d][i] = Tree[e][j] => d = e /\ i = j
       /\ Tree[d][i] \in Paths /\ Tree[e][j] \in Paths /\ Key[Tree[d][i]] = Key[Tree[e][j]] => d = e /\ i = j

VARIABLES pc, origin, order, lim, left, ret, inv, git, walk, ext, chk, trouble

invVars == <<pc, origin, order, lim, left, ret, inv, git, walk, ext, chk, trouble>>

\* The elements of s that are in S, in the order of s.
Those(s, S) ==
  LET kept[i \in 0 .. Len(s)] ==
        IF i = 0 THEN << >> ELSE IF s[i] \in S THEN Append(kept[i - 1], s[i]) ELSE kept[i - 1]
  IN kept[Len(s)]

Sorted(S) == Those(PathOrder, S)
Extending == {p \in DOMAIN Extends : Extends[p] # << >>}
Upto(s, n) == SubSeq(s, 1, IF n < Len(s) THEN n ELSE Len(s))
ScanLimit == Max({lim.capacity, lim.entries})
Noticed == trouble' = trouble + 1 /\ trouble < MaxTrouble

-----------------------------------------------------------------------------------
(* Package metadata and "extends" values.                                         *)

\* _build_typescript_package_index: [found, reasons]; it stops at the first limit
PackageIndex(paths) ==
  LET Step(acc, p) ==
        LET size == PackageJson[p].size
        IN IF acc.stopped THEN acc
           ELSE IF Len(acc.found) >= lim.packages \/ size > lim.packageBytes - acc.bytes
           THEN [acc EXCEPT !.stopped = TRUE]
           ELSE [acc EXCEPT !.found = Append(@, p), !.bytes = @ + size]
      Of(all) == [found |-> all.found, reasons |-> IF all.stopped THEN {"package-index"} ELSE {}]
  IN Of(FoldLeft(Step, [found |-> << >>, bytes |-> 0, stopped |-> FALSE], Sorted(paths \cap Packages)))

\* _PackageExportTraversal over the entries in the order of the traversal: it stops at
\* the first entry that no longer fits; a target of 0 bytes cannot be represented
ExportTargets(items) ==
  LET Step(acc, item) ==
        IF acc.truncated THEN acc
        ELSE IF acc.entries >= lim.exports THEN [acc EXCEPT !.truncated = TRUE]
        ELSE LET x == [acc EXCEPT !.entries = @ + 1]
             IN IF item.kind = "node" \/ item \in Range(acc.targets) THEN x
                ELSE IF item.bytes = 0 \/ Len(acc.targets) >= lim.targets
                        \/ item.bytes > lim.targetBytes - acc.bytes
                THEN [x EXCEPT !.truncated = TRUE]
                ELSE [x EXCEPT !.targets = Append(@, item), !.bytes = @ + item.bytes]
  IN FoldLeft(Step, [entries |-> 0, targets |-> << >>, bytes |-> 0, truncated |-> FALSE], items)

\* _inventory_package_extends_candidate_groups: a package gives its "tsconfig", else
\* the targets of its exports, else the conventional place
PackageGroups(value, index) ==
  LET Of(p) == PackageJson[p]
      Named == SelectSeq(index.found, LAMBDA p : Of(p).name = value.package)
      Direct(p) == value.subpath = "." /\ Of(p).tsconfig # << >>
      Exports(p) == ExportTargets(Of(p).exports[value.subpath])
      Candidates(targets) == [i \in DOMAIN targets |-> targets[i].candidates]
      GroupsOf(p) ==
        IF Direct(p) THEN <<Of(p).tsconfig>>
        ELSE IF Of(p).hasExports THEN Candidates(Exports(p).targets)
        ELSE <<Of(p).conventional[value.subpath]>>
      Cut(p) == ~Direct(p) /\ Of(p).hasExports /\ Exports(p).truncated
      Step(acc, g) ==
        IF g = << >> \/ g \in acc.groups \/ acc.full THEN acc
        ELSE IF Cardinality(acc.groups) >= lim.groups THEN [acc EXCEPT !.full = TRUE]
        ELSE [acc EXCEPT !.groups = @ \cup {g}]
      Said(all) ==
        [groups |-> SetToSeq(all.groups),
         reasons |-> (IF all.full THEN {"package-groups"} ELSE {})
                     \cup (IF \E i \in DOMAIN Named : Cut(Named[i]) THEN {"package-exports"} ELSE {})]
  IN Said(FoldLeft(LAMBDA acc, p : FoldLeft(Step, acc, GroupsOf(p)), [groups |-> {}, full |-> FALSE], Named))

\* The candidate groups of one "extends" value, where the package metadata is index
ValueGroups(value, index) ==
  IF value.kind = "relative"
  THEN [groups |-> IF value.candidates = << >> THEN << >> ELSE <<value.candidates>>, reasons |-> {}]
  ELSE IF value.kind = "package"
  THEN LET g == PackageGroups(value, index) IN [g EXCEPT !.reasons = @ \cup index.reasons]
  ELSE [groups |-> << >>, reasons |-> {}]

\* The first candidate of a group that the inventory lists, as it lists it first
Known(paths, key) == {i \in DOMAIN paths : Key[paths[i]] = key}
FirstListed(paths, group) ==
  LET hits == {i \in DOMAIN group : Known(paths, Key[group[i]]) # {}}
  IN IF hits = {} THEN {} ELSE {paths[Min(Known(paths, Key[group[Min(hits)]]))]}

\* _reachable_typescript_config_paths, where the configurations in bad cannot be read:
\* the keys reached from the roots through "extends", and the reasons met
ReachableIn(paths, groups) ==
  LET Follow(p) == UNION {UNION {FirstListed(paths, g.groups[i]) : i \in DOMAIN g.groups} : g \in groups[p]}
      ReasonsOf(p) == UNION {g.reasons : g \in groups[p]}
      Of(all) == [keys |-> {Key[p] : p \in all}, reasons |-> UNION {ReasonsOf(p) : p \in all \cap Range(paths)}]
  IN Of(FoldLeft(LAMBDA S, i : S \cup UNION {Follow(p) : p \in S}, Range(paths) \cap ConfigRoots,
                 [i \in 1 .. Len(paths) |-> i]))

Reachable(listed, bad) ==
  LET Values(p) == IF p \in bad THEN << >> ELSE Extends[p]
      Groups(p, index) == {ValueGroups(Values(p)[i], index) : i \in DOMAIN Values(p)}
      From(paths, index) == ReachableIn(paths, [p \in Range(paths) |-> Groups(p, index)])
      Within(paths) == From(paths, PackageIndex(Range(paths)))
  IN Within(Upto(listed, ScanLimit))

-----------------------------------------------------------------------------------
(* A list of files supplied by the caller.                                        *)

\* The bounded lookup list in which "extends" is resolved: critical paths, then
\* paths of any other suffix, then ordinary JSON
Category(p) == IF Critical(p, FALSE) THEN "critical" ELSE IF Suffix[p] = "json" THEN "ordinary" ELSE "generic"
SuppliedLookup(paths) ==
  LET explicitEntries == Min({lim.entries, lim.capacity})
      explicitBytes   == Min({lim.configBytes, lim.bytes \div 4})
      Step(category, acc, p) ==
        LET explicit == category # "generic"
            fits == /\ acc.explicitBytes + acc.genericBytes + Bytes[p] <= lim.bytes
                    /\ explicit => Len(acc.explicit) < explicitEntries
                    /\ ~explicit => /\ Len(acc.generic) < lim.capacity - explicitEntries
                                    /\ acc.genericBytes + Bytes[p] <= lim.bytes - explicitBytes
        IN IF Category(p) # category \/ Known(acc.explicit \o acc.generic, Key[p]) # {} THEN acc
           ELSE IF ~fits THEN [acc EXCEPT !.limited = TRUE]
           ELSE IF explicit THEN [acc EXCEPT !.explicit = Append(@, p), !.explicitBytes = @ + Bytes[p]]
           ELSE [acc EXCEPT !.generic = Append(@, p), !.genericBytes = @ + Bytes[p]]
      Pass(acc, category) == FoldLeft(LAMBDA a, p : Step(category, a, p), acc, paths)
      first == Pass([explicit |-> << >>, generic |-> << >>, explicitBytes |-> 0, genericBytes |-> 0,
                     limited |-> FALSE], "critical")
      all == IF Range(first.explicit) \cap ConfigRoots = {} THEN first
             ELSE Pass(Pass(first, "generic"), "ordinary")
  IN [paths |-> all.explicit \o all.generic,
      limited |-> all.limited /\ Range(all.explicit) \cap ConfigRoots # {}]

\* _bounded_supplied_typescript_inventory
SuppliedRetention(bad) ==
  LET scanned == Upto(order, ScanLimit)
      Keep(lookup, reach, wanted) ==
        LET reasons == reach.reasons
                       \cup (IF Len(order) > ScanLimit THEN {"scan"} ELSE {})
                       \cup (IF lookup.limited THEN {"lookup"} ELSE {})
                       \cup (IF Len(wanted) > lim.capacity THEN {"capacity"} ELSE {})
        IN AddEach(EmptyRetention(lim, reasons, FALSE), Upto(wanted, lim.capacity), reach.keys)
      Reached(lookup, reach) ==
        Keep(lookup, reach, Those(scanned, {p \in Paths : Candidate(p) \/ Key[p] \in reach.keys}))
      LookedUp(lookup) == Reached(lookup, Reachable(lookup.paths, bad))
  IN LookedUp(SuppliedLookup(scanned))

-----------------------------------------------------------------------------------
NoGit  == [reader |-> "gone", child |-> "none", queue |-> << >>, chunk |-> NoPath, sent |-> 0,
           bytes |-> 0, relevant |-> 0, stop |-> TRUE]
NoWalk == [dirs |-> << >>, entries |-> << >>, visited |-> 0, pending |-> 0, inspect |-> 0, unread |-> 0]
NoExt  == [backed |-> FALSE, pending |-> << >>, reach |-> {}, by |-> << >>, values |-> << >>,
           groups |-> << >>, packages |-> << >>, checks |-> 0, seen |-> << >>]
NoChk  == [child |-> "none", worker |-> "none", path |-> NoPath, answer |-> "none", failed |-> FALSE]
NoRet  == EmptyRetention([entries |-> 0, capacity |-> 0, bytes |-> 0], {}, FALSE)

InvInit ==
  /\ pc = "start" /\ origin \in {"supplied", "fallback"}
  /\ order \in Orders /\ lim \in Limits /\ trouble = 0
  /\ origin = "fallback" =>            \* Git sorts its output: the files it does not track come first
       order = Sorted(Range(order) \ Tracked) \o Sorted(Range(order) \cap Tracked)
  /\ ret = NoRet /\ inv = << >>
  /\ git = NoGit /\ walk = NoWalk /\ ext = NoExt /\ chk = NoChk

Taking == pc \in {"start", "git", "gitwait", "walk", "extends", "asking", "manifest"}
OnTime == left > 0

\* Time passes while the inventory is taken
Tick ==
  /\ Taking /\ left > 0 /\ left' = left - 1
  /\ UNCHANGED <<pc, origin, order, lim, ret, inv, git, walk, ext, chk, trouble>>

\* Variant: the stop event is not set
StoppedGitNoEvent ==
  IF git.reader = "gone" THEN NoGit
  ELSE [git EXCEPT !.child = "dead", !.bytes = 0, !.relevant = 0]

\* The finally clause of _stream_bounded_git_typescript_inventory: stop the reader, kill
\* Git; the thread may still have to notice it
StoppedGit ==
  IF git.reader = "gone" THEN NoGit
  ELSE [git EXCEPT !.stop = TRUE, !.child = "dead", !.bytes = 0, !.relevant = 0]
\* close of the checker: a worker that waits for requests is sent away, but not when the
\* checker has failed; one that waits for Git reads the end of its output once Git is dead
StoppedChk == [chk EXCEPT !.child = IF @ = "running" THEN "dead" ELSE @,
                          !.worker = IF @ = "idle" /\ ~chk.failed THEN "gone" ELSE @,
                          !.path = NoPath, !.answer = "none"]

\* _abort kills Git and sends nobody away: a worker that has just answered goes on waiting
AbortedChk == [chk EXCEPT !.failed = TRUE, !.child = IF @ = "running" THEN "dead" ELSE @,
                          !.path = NoPath, !.answer = "none"]

\* A deadline check raises: the processes are ended on the way out
Overdue ==
  /\ Taking /\ left = 0
  /\ pc' = "failed" /\ ret' = NoRet /\ inv' = << >>
  /\ git' = StoppedGit /\ walk' = NoWalk /\ ext' = NoExt
  /\ chk' = IF pc = "asking" THEN AbortedChk ELSE StoppedChk
  /\ UNCHANGED <<origin, order, lim, left, trouble>>

\* The listing is done; a supplied list goes straight to the manifest
Listed(r) == inv' = [paths |-> RetainedSeq(r), reasons |-> r.reasons, broken |-> r.broken]

Supply ==
  /\ pc = "start" /\ origin = "supplied" /\ OnTime
  /\ \E bad \in SUBSET Extending :
       /\ trouble' = trouble + Cardinality(bad) /\ trouble' <= MaxTrouble
       /\ \E made \in {SuppliedRetention(bad)} : ret' = made /\ Listed(made)
  /\ pc' = "manifest"
  /\ UNCHANGED <<origin, order, lim, left, git, walk, ext, chk>>

-----------------------------------------------------------------------------------
(* The stream of `git ls-files`: a reader thread, a queue of two chunks.          *)

GitOutput == Those(order, {p \in Paths : Candidate(p) /\ p \notin Hidden})

StartWalk ==
  /\ pc' = "walk" /\ ret' = EmptyRetention(lim, {}, TRUE)
  /\ walk' = [NoWalk EXCEPT !.dirs = <<RootDir>>]

GitStart ==
  /\ pc = "start" /\ origin = "fallback" /\ OnTime
  /\ \/ /\ pc' = "git" /\ ret' = EmptyRetention(lim, {}, TRUE)
        /\ git' = [NoGit EXCEPT !.reader = "reading", !.child = "running", !.stop = FALSE]
        /\ UNCHANGED <<walk, trouble>>
     \/ /\ StartWalk /\ Noticed /\ UNCHANGED git          \* Git cannot be started
  /\ UNCHANGED <<origin, order, lim, left, inv, ext, chk>>

\* Git ends; when it fails the rest of its output is lost
GitExits ==
  /\ git.child = "running"
  /\ \/ git.sent = Len(GitOutput) /\ git' = [git EXCEPT !.child = "ok"] /\ UNCHANGED trouble
     \/ git' = [git EXCEPT !.child = "failed"] /\ Noticed
  /\ UNCHANGED <<pc, origin, order, lim, left, ret, inv, walk, ext, chk>>

\* read_stdout: a chunk, or the end of the output
ReaderReads ==
  /\ git.reader = "reading" /\ ~git.stop
  /\ \/ /\ git.child \in {"running", "ok"} /\ git.sent < Len(GitOutput)
        /\ git' = [git EXCEPT !.reader = "putting", !.chunk = GitOutput[git.sent + 1], !.sent = @ + 1]
     \/ /\ git.sent = Len(GitOutput) \/ git.child \in {"failed", "dead"}
        /\ git' = [git EXCEPT !.reader = "putting", !.chunk = NoPath]
  /\ UNCHANGED <<pc, origin, order, lim, left, ret, inv, walk, ext, chk, trouble>>

\* enqueue: wait for room in the queue; the end of the output is put last
ReaderPuts ==
  /\ git.reader = "putting" /\ ~git.stop /\ Len(git.queue) < 2
  /\ git' = [git EXCEPT !.queue = Append(@, git.chunk), !.chunk = NoPath,
                        !.reader = IF git.chunk = NoPath THEN "gone" ELSE "reading"]
  /\ UNCHANGED <<pc, origin, order, lim, left, ret, inv, walk, ext, chk, trouble>>

\* The reader sees the stop event between two reads or while it waits for room
ReaderStops ==
  /\ git.reader # "gone" /\ git.stop /\ git' = NoGit
  /\ UNCHANGED <<pc, origin, order, lim, left, ret, inv, walk, ext, chk, trouble>>

\* The retention of the fallback inventory, filled again before "extends" is followed
\* (inventory_by_path: the last path of a key wins)
StartExtends(r, backed) ==
  LET paths == RetainedSeq(r)
      roots == Range(paths) \cap ConfigRoots
  IN /\ pc' = "extends" /\ inv' = << >>
     /\ ret' = AddEach(EmptyRetention(lim, r.reasons, TRUE), paths, {})
     /\ ext' = [NoExt EXCEPT !.backed = backed, !.pending = Sorted(roots), !.reach = {Key[p] : p \in roots},
                             !.by = [k \in {Key[p] : p \in Range(paths)} |-> paths[Max(Known(paths, k))]]]

\* _append_bounded_git_typescript_path, and the limits of the stream around it
GitTakes ==
  /\ pc = "git" /\ OnTime /\ git.queue # << >>
  /\ LET p == Head(git.queue)
         bytes == git.bytes + Bytes[p]
     IN IF p = NoPath
        THEN pc' = "gitwait" /\ git' = [git EXCEPT !.queue = Tail(@)] /\ UNCHANGED <<ret, inv, ext>>
        ELSE IF bytes > lim.output \/ (p \notin Ignored /\ git.relevant >= lim.capacity)
        THEN /\ StartExtends(AddReason(ret, IF bytes > lim.output THEN "output" ELSE "capacity"), TRUE)
             /\ git' = StoppedGit
        ELSE /\ git' = [git EXCEPT !.queue = Tail(@), !.bytes = bytes,
                                   !.relevant = @ + (IF p \in Ignored THEN 0 ELSE 1)]
             /\ ret' = IF p \in Ignored THEN ret ELSE Add(ret, p, FALSE).r
             /\ UNCHANGED <<pc, inv, ext>>
  /\ UNCHANGED <<origin, order, lim, left, walk, chk, trouble>>

\* Variant: what was read before Git failed is taken for the whole list
GitEndsAnyway ==
  /\ pc = "gitwait" /\ OnTime /\ git.child \in {"ok", "failed"}
  /\ StartExtends(ret, TRUE) /\ git' = StoppedGit /\ UNCHANGED walk
  /\ UNCHANGED <<origin, order, lim, left, chk, trouble>>

\* The stream is at its end: wait for Git; if it failed, nothing of it is used
GitEnds ==
  /\ pc = "gitwait" /\ OnTime /\ git.child \in {"ok", "failed"}
  /\ git' = StoppedGit
  /\ IF git.child = "ok" THEN StartExtends(ret, TRUE) /\ UNCHANGED walk
     ELSE StartWalk /\ UNCHANGED <<inv, ext>>
  /\ UNCHANGED <<origin, order, lim, left, chk, trouble>>

-----------------------------------------------------------------------------------
(* The walk of the file system.                                                   *)

WalkReasons == {x \in {"inspect", "unread"} : walk[x] > 0}

WalkOpens ==
  /\ pc = "walk" /\ OnTime /\ walk.entries = << >> /\ walk.dirs # << >>
  /\ LET d == Last(walk.dirs)
         w == [walk EXCEPT !.dirs = Front(@), !.pending = @ - DirBytes[d]]
     IN \/ walk' = [w EXCEPT !.entries = Tree[d]] /\ UNCHANGED trouble
        \/ walk' = [w EXCEPT !.unread = @ + 1] /\ Noticed
  /\ UNCHANGED <<pc, origin, order, lim, left, ret, inv, git, ext, chk>>

\* One entry: counted, inspected, ignored, a directory to read or a file to keep
WalkEntry ==
  /\ pc = "walk" /\ OnTime /\ walk.entries # << >>
  /\ LET e == Head(walk.entries)
         w == [walk EXCEPT !.entries = Tail(@), !.visited = @ + 1]
     IN IF w.visited > lim.capacity
        THEN /\ StartExtends([ret EXCEPT !.reasons = @ \cup {"capacity"} \cup WalkReasons], FALSE)
             /\ walk' = NoWalk /\ UNCHANGED trouble
        ELSE /\ \/ walk' = [w EXCEPT !.inspect = @ + 1] /\ Noticed /\ UNCHANGED ret
                \/ walk' = [w EXCEPT !.entries = << >>, !.unread = @ + 1] /\ Noticed /\ UNCHANGED ret
                \/ e \in Ignored /\ walk' = w /\ UNCHANGED <<ret, trouble>>
                \/ /\ e \in Dirs \ Ignored /\ UNCHANGED trouble
                   /\ IF w.pending + DirBytes[e] > lim.bytes
                      THEN ret' = AddReason(ret, "dirs") /\ walk' = w
                      ELSE walk' = [w EXCEPT !.dirs = Append(@, e), !.pending = @ + DirBytes[e]] /\ UNCHANGED ret
                \/ /\ e \in Paths \ Ignored /\ walk' = w /\ UNCHANGED trouble
                   /\ ret' = IF Candidate(e) THEN Add(ret, e, FALSE).r ELSE ret
             /\ UNCHANGED <<pc, inv, ext>>
  /\ UNCHANGED <<origin, order, lim, left, git, chk>>

WalkEnds ==
  /\ pc = "walk" /\ OnTime /\ walk.entries = << >> /\ walk.dirs = << >>
  /\ StartExtends([ret EXCEPT !.reasons = @ \cup WalkReasons], FALSE) /\ walk' = NoWalk
  /\ UNCHANGED <<origin, order, lim, left, git, chk, trouble>>

-----------------------------------------------------------------------------------
(* Configurations of any suffix that are reached through "extends".               *)

\* A configuration is taken from the list; one that cannot be read is passed over
ExtPops ==
  /\ pc = "extends" /\ OnTime /\ ext.values = << >> /\ ext.groups = << >> /\ ext.pending # << >>
  /\ LET p == Last(ext.pending)
         x == [ext EXCEPT !.pending = Front(@)]
     IN \/ /\ ext' = [x EXCEPT !.values = IF Key[p] \in DOMAIN ext.by THEN Extends[ext.by[Key[p]]] ELSE << >>]
           /\ UNCHANGED trouble
        \/ ext' = x /\ Noticed
  /\ UNCHANGED <<pc, origin, order, lim, left, ret, inv, git, walk, chk>>

\* One "extends" value; the package index is built when the first package is named
ExtValue ==
  /\ pc = "extends" /\ OnTime /\ ext.values # << >> /\ ext.groups = << >>
  /\ LET value == Head(ext.values)
         index == IF value.kind = "package" /\ ext.packages = << >>
                  THEN PackageIndex(Range(ext.by)) ELSE [found |-> ext.packages, reasons |-> {}]
         g == ValueGroups(value, index)
     IN /\ ext' = [ext EXCEPT !.values = Tail(@), !.groups = g.groups, !.packages = index.found]
        /\ ret' = [ret EXCEPT !.reasons = @ \cup g.reasons]
  /\ UNCHANGED <<pc, origin, order, lim, left, inv, git, walk, chk, trouble>>

\* The group in hand, its next candidate; going on with the candidates left or with
\* the next group, once a path is found or no candidate is left
Group == Head(ext.groups)
NextCandidate(x) ==
  IF Len(Group) = 1 THEN [x EXCEPT !.groups = Tail(@)] ELSE [x EXCEPT !.groups[1] = Tail(@)]
Resolved(x, p) ==
  [x EXCEPT !.groups = Tail(@), !.reach = @ \cup {Key[p]},
            !.pending = IF Key[p] \in ext.reach THEN @ ELSE Append(@, p)]

\* The candidate exists and Git shows it: it is read and offered to the retention
Admit(x, c) ==
  \/ \E added \in {Add(ret, c, TRUE)} :
       /\ ret' = added.r /\ UNCHANGED trouble
       /\ ext' = IF added.ok THEN Resolved([x EXCEPT !.by = (Key[c] :> c) @@ @], c) ELSE NextCandidate(x)
  \/ ext' = NextCandidate(x) /\ UNCHANGED ret /\ Noticed            \* it cannot be read

\* What Git says of a candidate; not knowing leaves it out and is a reason
Judged(x, c, visible) ==
  /\ pc' = "extends"
  /\ IF visible = "unknown"
     THEN ext' = NextCandidate(x) /\ ret' = AddReason(ret, "visibility") /\ UNCHANGED trouble
     ELSE IF visible = "no" THEN ext' = NextCandidate(x) /\ UNCHANGED <<ret, trouble>>
     ELSE Admit(x, c)

\* visible: the process and its worker are started for the first question; once the
\* checker has failed it answers no more
Ask(c, x) ==
  \/ /\ chk.failed
     /\ Judged([x EXCEPT !.seen = (c :> "unknown") @@ @], c, "unknown") /\ UNCHANGED chk
  \/ /\ ~chk.failed /\ chk.child = "none" /\ Noticed                   \* Git cannot be started
     /\ chk' = [chk EXCEPT !.failed = TRUE]
     /\ pc' = "extends" /\ ret' = AddReason(ret, "visibility")
     /\ ext' = NextCandidate([x EXCEPT !.seen = (c :> "unknown") @@ @])
  \/ /\ ~chk.failed
     /\ chk' = [chk EXCEPT !.child = "running", !.worker = "serving", !.path = c]
     /\ pc' = "asking" /\ ext' = x /\ UNCHANGED <<ret, trouble>>

\* One candidate: known already, ignored, over the limit of checks, missing, or new
ExtCandidate ==
  /\ pc = "extends" /\ OnTime /\ ext.groups # << >>
  /\ LET c == Head(Group)
         counted == [ext EXCEPT !.checks = @ + 1]
     IN IF Key[c] \in DOMAIN ext.by
        THEN ext' = Resolved(ext, ext.by[Key[c]]) /\ UNCHANGED <<pc, ret, chk, trouble>>
        ELSE IF c \in Ignored THEN ext' = NextCandidate(ext) /\ UNCHANGED <<pc, ret, chk, trouble>>
        ELSE IF counted.checks > lim.entries
        THEN /\ ret' = AddReason(ret, "checks") /\ UNCHANGED <<pc, chk, trouble>>
             /\ ext' = [NoExt EXCEPT !.backed = ext.backed]
        ELSE \/ c \notin Existing /\ ext' = NextCandidate(counted) /\ UNCHANGED <<pc, ret, chk, trouble>>
             \/ /\ c \in Existing /\ ~ext.backed
                /\ Admit(counted, c) /\ UNCHANGED <<pc, chk>>
             \/ /\ c \in Existing /\ ext.backed /\ c \in DOMAIN ext.seen
                /\ Judged(counted, c, ext.seen[c]) /\ UNCHANGED chk
             \/ /\ c \in Existing /\ ext.backed /\ c \notin DOMAIN ext.seen
                /\ Ask(c, counted)
  /\ UNCHANGED <<origin, order, lim, left, inv, git, walk>>

\* Everything reached has been followed: the checker is closed
ExtEnds ==
  /\ pc = "extends" /\ OnTime /\ ext.pending = << >> /\ ext.values = << >> /\ ext.groups = << >>
  /\ Listed(ret) /\ pc' = "manifest" /\ ext' = NoExt /\ chk' = StoppedChk
  /\ UNCHANGED <<origin, order, lim, left, ret, git, walk, trouble>>

\* The answer of the checker, whichever came; no answer, or a bad one, ends the checker
TakesAnswer ==
  /\ pc = "asking" /\ OnTime /\ chk.answer # "none"
  /\ LET x == [ext EXCEPT !.seen = (chk.path :> chk.answer) @@ @] IN Judged(x, chk.path, chk.answer)
  /\ chk' = IF chk.answer = "unknown" THEN AbortedChk ELSE [chk EXCEPT !.path = NoPath, !.answer = "none"]
  /\ UNCHANGED <<origin, order, lim, left, inv, git, walk>>

GivesUp ==
  /\ pc = "asking" /\ OnTime /\ Noticed
  /\ pc' = "extends" /\ chk' = AbortedChk
  /\ ext' = NextCandidate([ext EXCEPT !.seen = (chk.path :> "unknown") @@ @])
  /\ ret' = AddReason(ret, "visibility")
  /\ UNCHANGED <<origin, order, lim, left, inv, git, walk>>

\* _exchange in the worker thread: what `git check-ignore` says of the path, or nothing
\* that can be used: Git has died or its answer is malformed or about another path
WorkerAnswers ==
  /\ chk.worker = "serving"
  /\ \/ /\ chk.child = "running"
        /\ chk' = [chk EXCEPT !.worker = "idle", !.answer = IF chk.path \in Hidden THEN "no" ELSE "yes"]
        /\ UNCHANGED trouble
     \/ /\ chk.child = "running" /\ Noticed
        /\ chk' = [chk EXCEPT !.worker = "gone", !.failed = TRUE, !.answer = "unknown"]
     \/ /\ chk.child = "dead" /\ UNCHANGED trouble                \* it may have answered before it died
        /\ \E next \in {"gone", "idle"} : chk' = [chk EXCEPT !.worker = next]
  /\ UNCHANGED <<pc, origin, order, lim, left, ret, inv, git, walk, ext>>
===================================================================================
