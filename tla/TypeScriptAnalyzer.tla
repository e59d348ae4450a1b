---------------------------- MODULE TypeScriptAnalyzer ----------------------------
(* The TypeScript analysis of one review (run_typescript_analyzer): the inventory *)
(* becomes a manifest within the limits of the Node program that reads it, the    *)
(* changed files are split into shards, each shard is analyzed by one Node        *)
(* process, and what the shards return is merged; a shard that fails or is not    *)
(* reached leaves its files to the fallback context, and the result says so.      *)
EXTENDS TypeScriptInventory

CONSTANTS
  Changed,     \* the changed TypeScript and JavaScript files, in shard priority order
  ReasonBytes, \* bytes that one partial reason takes in the manifest
  BaseBytes,   \* bytes of a manifest without paths
  Timeout      \* units of time of config.timeout_seconds

ASSUME TimeoutAssumption == Timeout \in Nat \ {0}

ASSUME ManifestAssumption ==
  ReasonBytes \in Nat /\ BaseBytes \in Nat /\ \A l \in Limits : l.manifestBytes \in Nat

\* Git lists a path once, and a deleted file is not analyzed (ts_js_changed_files)
ASSUME ChangedAssumption ==
  /\ Changed \in Seq(Range(Changed))
  /\ \A i, j \in DOMAIN Changed : Changed[i] = Changed[j] => i = j

ASSUME ShardsAssumption == \A l \in Limits : l.shard \in Nat \ {0} /\ l.largeShard \in Nat \ {0}

VARIABLES manifest, shards, at, results, failures, result

tsVars == <<invVars, manifest, shards, at, results, failures, result>>
outVars == <<manifest, shards, at, results, failures, result>>

-----------------------------------------------------------------------------------
(* The manifest.                                                                  *)

\* _ordered_typescript_inventory: of the paths of every key the first.
Place(p) == CHOOSE i \in DOMAIN PathOrder : PathOrder[i] = p
FirstOfKeys(paths) == {p \in paths : \A q \in paths : Key[q] = Key[p] => Place(p) <= Place(q)}

\* _iter_typescript_manifest_section and _is_critical_typescript_manifest_section_path
InSection(section, p, reach) ==
  CASE section = "files" -> Suffix[p] = "source"
    [] section = "package_files" -> p \in Packages
    [] OTHER -> Suffix[p] = "json" \/ Key[p] \in reach
CriticalIn(section, p, reach) ==
  CASE section = "files" -> Key[p] \in reach
    [] section = "package_files" -> TRUE
    [] OTHER -> Critical(p, FALSE) \/ Key[p] \in reach

\* Each path is quoted, and there are commas between them; Bytes counts a separator.
SizeOf(ps) == BytesOf(ps) + Cardinality(ps) + (IF ps = {} THEN 0 ELSE Cardinality(ps) - 1)
MarkedSize(reasons) == BaseBytes + ReasonBytes * Cardinality(reasons)

\* The entries of a section in the order in which they are chosen
Preferred(section, ps, reach) ==
  Sorted({p \in ps : CriticalIn(section, p, reach)}) \o Sorted({p \in ps : ~CriticalIn(section, p, reach)})

\* A path is taken unless the limit is passed then: allowed are the sets within it.
Take(taken, p, allowed) == IF taken \cup {p} \in allowed THEN taken \cup {p} ELSE taken
Taken(offered, allowed) ==
  LET taken[i \in 0 .. Len(offered)] == IF i = 0 THEN {} ELSE Take(taken[i - 1], offered[i], allowed)
  IN taken[Len(offered)]

\* The first entries of a section, as many as it may have.
LimitedByEntries(section, ps, reach) ==
  Taken(Preferred(section, ps, reach), {K \in SUBSET ps : Cardinality(K) <= lim.entries})

\* Variant: the commas between the entries are not counted
LimitedByBytesNoCommas(section, ps, reach, limit) ==
  Taken(Preferred(section, ps, reach), {K \in SUBSET ps : BytesOf(K) + Cardinality(K) <= limit})

\* _limit_typescript_manifest_section_keys_by_bytes: an entry too long is passed over
LimitedByBytes(section, ps, reach, limit) ==
  Taken(Preferred(section, ps, reach), {K \in SUBSET ps : SizeOf(K) <= limit})

\* The fair share of a section in the bytes left, where n sections still want some.
FairShare(size, rest, n) == IF size > 0 THEN Min({size, rest \div n}) ELSE 0
Wanting(sizes, sections) == Cardinality({s \in sections : sizes[s] > 0})

\* What is left over goes to the files, then to the configurations, then to the packages.
WithRest(sizes, package, config, files, rest) ==
  LET f == Min({sizes["files"] - files, rest})
      c == Min({sizes["config_files"] - config, rest - f})
      p == Min({sizes["package_files"] - package, rest - f - c})
  IN [package_files |-> package + p, config_files |-> config + c, files |-> files + f]

\* _allocate_typescript_manifest_section_bytes: fair shares, then what is left over
Allocated(sizes, available) ==
  LET all     == Max({0, available})
      package == FairShare(sizes["package_files"], all, Wanting(sizes, Sections))
      config  == FairShare(sizes["config_files"], all - package, Wanting(sizes, {"config_files", "files"}))
      files   == FairShare(sizes["files"], all - package - config, 1)
  IN WithRest(sizes, package, config, files, all - package - config - files)

\* What a manifest says when entries were cut, or bytes, or both
PartialReason(cut, heavy) ==
  IF cut /\ heavy THEN {"manifest-both"}
  ELSE (IF cut THEN {"manifest-entries"} ELSE {}) \cup (IF heavy THEN {"manifest-bytes"} ELSE {})

\* _stream_typescript_file_manifest: the bytes that are written for these lists
StreamedSize(lists, reasons) ==
  MarkedSize(reasons) + SizeOf(lists["files"]) + SizeOf(lists["package_files"]) + SizeOf(lists["config_files"])

\* The entries that are written: all, or in each section those within its share of bytes
Written(chosen, heavy, reach, room) ==
  [s \in Sections |-> IF heavy THEN LimitedByBytes(s, chosen[s], reach, room[s]) ELSE chosen[s]]

Fitted(chosen, heavy, reach, said) ==
  LET sizes     == [s \in Sections |-> SizeOf(chosen[s])]
      room      == Allocated(sizes, lim.manifestBytes - MarkedSize(said))
      Of(lists) == [lists |-> lists, reasons |-> said, fits |-> MarkedSize(said) <= lim.manifestBytes,
                    size |-> StreamedSize(lists, said)]
  IN Of(Written(chosen, heavy, reach, room))

Weighed(chosen, cut, heavy, reach, reasons) ==
  Fitted(chosen, heavy, reach, reasons \cup PartialReason(cut, heavy))

\* _plan_typescript_file_manifest: what the manifest says, its size, and whether even
\* the reasons do not fit
Manifest(paths, reach, reasons) ==
  LET matching == [s \in Sections |-> {p \in paths : InSection(s, p, reach)}]
      cut == \E s \in Sections : Cardinality(matching[s]) > lim.entries
      Heavy(chosen) == StreamedSize(chosen, reasons \cup PartialReason(cut, FALSE)) > lim.manifestBytes
      Limited(chosen) == Weighed(chosen, cut, Heavy(chosen), reach, reasons)
  IN Limited([s \in Sections |-> LimitedByEntries(s, matching[s], reach)])

\* _write_typescript_file_manifest after the inventory: the configurations are followed
\* once more over the final list; some of them may not be readable now
WriteManifest ==
  /\ pc = "manifest" /\ OnTime
  /\ \E bad \in SUBSET Extending :
       /\ trouble' = trouble + Cardinality(bad) /\ trouble' <= MaxTrouble
       /\ \E paths \in {FirstOfKeys(Range(inv.paths))} : \E reach \in {Reachable(Sorted(paths), bad)} :
            manifest' = Manifest(paths, reach.keys, inv.reasons \cup reach.reasons)
       /\ pc' = IF inv.broken \/ ~manifest'.fits THEN "failed" ELSE "shards"
  /\ ret' = NoRet /\ inv' = << >>
  /\ UNCHANGED <<origin, order, lim, left, git, walk, ext, chk, shards, at, results, failures, result>>

-----------------------------------------------------------------------------------
(* Shards.                                                                        *)

\* _shard_changed_files, and the total timeout, which grows for a large change only
Large == lim.adaptive /\ Len(Changed) >= lim.large
ShardSize == IF Large THEN Min({lim.shard, lim.largeShard}) ELSE lim.shard
ShardsOf(size) ==
  [i \in 1 .. (Len(Changed) + size - 1) \div size |->
     SubSeq(Changed, (i - 1) * size + 1, Min({i * size, Len(Changed)}))]
TotalTimeout ==
  IF Large /\ Len(ShardsOf(ShardSize)) > 1
  THEN Timeout * Min({Len(ShardsOf(ShardSize)), 4}) ELSE Timeout

\* What a Node process answers for a shard (external, analyzer-runtimes/typescript): every
\* file of the shard is analyzed or failed, perhaps for want of time; a partial inventory
\* marks the answer, and so does anything else it met a limit in (limited: its own reading
\* of the inventory, a configuration, a program context or the workspace index); an older
\* runtime gives no coverage signal
Codes(c) ==
  (IF c.failed # {} THEN {"changed_file_analysis_incomplete"} ELSE {})
  \cup (IF c.late THEN {"analysis_time_budget_exhausted"} ELSE {})
  \cup (IF c.limited THEN {"analysis_context_partial"} ELSE {})
  \cup (IF manifest.reasons # {} THEN {"repository_inventory_partial"} ELSE {})
Answer(i, c) ==
  [index |-> i, files |-> Range(shards[i]) \ c.failed, failed |-> c.failed, late |-> c.late,
   covered |-> c.covered, partial |-> c.failed # {} \/ c.limited \/ manifest.reasons # {},
   codes |-> IF c.covered THEN Codes(c) ELSE {}]
Courses(i) ==
  {c \in [failed : SUBSET Range(shards[i]), late : BOOLEAN, limited : BOOLEAN, covered : BOOLEAN] :
     c.late => c.failed # {} /\ c.covered}
Answers(i) == {Answer(i, c) : c \in Courses(i)}

\* _annotate_successful_shard: an answer without a signal gets one
Annotated(a) ==
  [a EXCEPT !.covered = TRUE,
            !.codes = IF ~a.covered /\ a.partial THEN {"partial_reason_unspecified"} ELSE @]
StatusOf(a) == IF a.late THEN "timeout" ELSE IF a.partial THEN "partial" ELSE "complete"

FailShard(i, status) == [index |-> i, files |-> Range(shards[i]), status |-> status]

\* The Node process of a shard outlives the time it was given; its process group is
\* terminated, and only then does the shard end
Overrun(i, allowed) ==
  /\ Noticed /\ left' = left - allowed /\ UNCHANGED results
  /\ failures' = Append(failures, FailShard(i, "timeout"))

\* _run_typescript_analyzer_shard: it has the smaller of its own timeout and of the time
\* that is left; an error or a timeout is kept as a failure of the shard
RunShard ==
  /\ pc = "shards" /\ at <= Len(shards) /\ OnTime
  /\ LET allowed == Min({Timeout, left})
     IN \/ \E a \in Answers(at), d \in {0, allowed} :
             /\ results' = Append(results, Annotated(a)) /\ left' = left - d
             /\ UNCHANGED <<failures, trouble>>
        \/ /\ Noticed /\ UNCHANGED <<results, left>>
           /\ failures' = Append(failures, FailShard(at, "failed"))
        \/ Overrun(at, allowed)
  /\ at' = at + 1
  /\ UNCHANGED <<pc, origin, order, lim, ret, inv, git, walk, ext, chk, manifest, shards, result>>

\* Variant: the shards that no time is left for are forgotten
SkipQuietly ==
  /\ pc = "shards" /\ at <= Len(shards) /\ left = 0
  /\ at' = Len(shards) + 1 /\ UNCHANGED failures
  /\ UNCHANGED <<invVars, manifest, shards, results, result>>

\* No time is left: the remaining shards are timeouts
SkipShards ==
  /\ pc = "shards" /\ at <= Len(shards) /\ left = 0
  /\ failures' = failures \o [i \in 1 .. Len(shards) - at + 1 |-> FailShard(at + i - 1, "timeout")]
  /\ at' = Len(shards) + 1
  /\ UNCHANGED <<invVars, manifest, shards, results, result>>

\* _merge_analyzer_results and what _run_typescript_analyzer_shards adds for failures
Merged ==
  LET failedShards == UNION {f.files : f \in Range(failures)}
      failed == UNION {a.failed : a \in Range(results)}
      partial == \E a \in Range(results) : a.partial
      codes == UNION {a.codes : a \in Range(results)}
      statusCode == [failed |-> "shard_failed", timeout |-> "shard_timeout"]
      StatusAt(i) == IF \E a \in Range(results) : a.index = i
                     THEN StatusOf(CHOOSE a \in Range(results) : a.index = i)
                     ELSE (CHOOSE f \in Range(failures) : f.index = i).status
  IN [files |-> UNION {a.files : a \in Range(results)},
      failed |-> failed \cup failedShards,
      partial |-> partial \/ failures # << >>,
      codes |-> IF failures = << >> THEN codes
                ELSE codes \cup {statusCode[f.status] : f \in Range(failures)}
                           \cup {"changed_file_analysis_incomplete"},
      metrics |-> [i \in {a.index : a \in Range(results) \cup Range(failures)} |-> StatusAt(i)]]

\* The last shard is done: without any answer the analysis fails
Finish ==
  /\ pc = "shards" /\ at > Len(shards)
  /\ IF results = << >> THEN pc' = "failed" /\ UNCHANGED result
     ELSE pc' = "done" /\ result' = Merged
  /\ UNCHANGED <<origin, order, lim, left, ret, inv, git, walk, ext, chk, trouble, manifest, shards, at,
                 results, failures>>

NoManifest == [lists |-> [s \in Sections |-> {}], reasons |-> {}, fits |-> TRUE, size |-> 0]

Init ==
  /\ InvInit /\ left = TotalTimeout
  /\ shards = ShardsOf(ShardSize) /\ at = 1 /\ results = << >> /\ failures = << >>
  /\ manifest = NoManifest /\ result = << >>

InventoryStep ==
  \/ Tick \/ Overdue \/ Supply \/ GitStart \/ GitExits \/ ReaderReads \/ ReaderPuts \/ ReaderStops
  \/ GitTakes \/ GitEnds \/ WalkOpens \/ WalkEntry \/ WalkEnds
  \/ ExtPops \/ ExtValue \/ ExtCandidate \/ ExtEnds \/ TakesAnswer \/ GivesUp \/ WorkerAnswers

Ended == pc \in {"done", "failed"}

Next ==
  \/ InventoryStep /\ UNCHANGED outVars
  \/ WriteManifest \/ RunShard \/ SkipShards \/ Finish

\* Time passes, the analysis runs, and its threads notice that they must end: the reader
\* looks at the stop event, the worker reads the end of the output of the killed Git.
\* Nothing is assumed of Git; a Node process is killed when its time is over
Spec ==
  /\ Init /\ [][Next]_tsVars
  /\ WF_tsVars(Tick /\ UNCHANGED outVars) /\ WF_tsVars(Overdue /\ UNCHANGED outVars)
  /\ WF_tsVars(ReaderStops /\ UNCHANGED outVars)
  /\ WF_tsVars(chk.child = "dead" /\ WorkerAnswers /\ UNCHANGED outVars)
  /\ WF_tsVars(RunShard \/ SkipShards \/ Finish)

-----------------------------------------------------------------------------------
(* What the analysis promises.                                                    *)

\* The bookkeeping of the retained paths agrees with what is retained after every path,
\* also after paths were dropped for more important ones, and the manifest stays within
\* the limits of its reader, commas and reasons included.
WithinLimits ==
  /\ CountersAgree(ret)
  /\ pc = "shards" => /\ manifest.size <= lim.manifestBytes
                      /\ \A s \in Sections : Cardinality(manifest.lists[s]) <= lim.entries

\* The paths a complete inventory lists: those given, or those Git or a walk shows
Expected == IF origin = "supplied" THEN Range(order) ELSE Range(order) \ (Hidden \cup Ignored)

\* Nothing is left out in silence: a manifest without a partial reason lists every source
\* and every JSON file and, unless a configuration could not be read, every
\* configuration that "extends" leads to, whatever its suffix.
NothingLostInSilence ==
  pc = "shards" /\ manifest.reasons = {} =>
    /\ \A p \in Expected : Suffix[p] = "source" => p \in manifest.lists["files"]
    /\ \A p \in Expected : Suffix[p] = "json" => p \in manifest.lists["config_files"]
    /\ trouble = 0 =>
         Reachable(Sorted(Expected), {}).keys \subseteq {Key[p] : p \in manifest.lists["config_files"]}

\* Every changed file is in the result, analyzed or failed, and every shard is reported
\* once. The result is partial exactly when some shard is not reported complete, and then
\* says why; it is partial when a file failed or the manifest was cut, and the files of a
\* shard that is reported complete are all analyzed.
ResultAccountsForAll ==
  pc = "done" =>
    /\ result.files \cup result.failed = Range(Changed)
    /\ result.files \cap result.failed = {}
    /\ DOMAIN result.metrics = DOMAIN shards
    /\ result.partial <=> result.codes # {}
    /\ result.partial <=> \E i \in DOMAIN shards : result.metrics[i] # "complete"
    /\ result.failed # {} \/ manifest.reasons # {} => result.partial
    /\ \A i \in DOMAIN shards : result.metrics[i] = "complete" => Range(shards[i]) \subseteq result.files

\* The analysis ends in the time it is given; no Git process of it and not the reader of
\* `git ls-files` outlives it, and the worker of `git check-ignore` only where its checker
\* was given up: it then waits, a daemon thread, for requests that nobody makes.
AnalysisEnds ==
  <>[](/\ Ended
       /\ git.reader = "gone" /\ git.child # "running" /\ chk.child # "running"
       /\ chk.worker \in {"none", "gone"} \/ (chk.worker = "idle" /\ chk.failed))
===================================================================================
