-------------------------------- MODULE DartAnalysis --------------------------------
(* The Dart analysis of a review (run_dart_analyzer) and the cache of its results.  *)
(* A run fingerprints the files of the repository one by one, looks the fingerprint *)
(* up, and on a miss opens the changed files in a server, asks about each of them   *)
(* and stores a complete result under the fingerprint. Files may be edited at any   *)
(* moment, between the hashing of two files too, and runs share the cache file. The *)
(* server is the one of DartLspClient, seen here through the outcomes of a request. *)
EXTENDS DartWorkspace

CONSTANTS
  Runs,             \* runs that may take place at the same time; each may be started again
  Versions, NoKey, NoEntry,
  Files,            \* every file the server may read, in sorted order
  Sdk,              \* the selected Dart SDK, a file of its own
  Editable,         \* the files edited while runs take place
  Listed,           \* the inventory of the review (project_files)
  Inputs,           \* names that are fingerprint inputs wherever they are listed
  Sources,          \* the Dart sources and context files of the repository, wherever they are
  Ignored,          \* files in directories the walk leaves out, or behind symbolic links
  Implicit,         \* package_config.json and FVM files, wherever they are
  Outside,          \* files of packages outside the repository
  OptionsFiles,     \* analysis_options files
  Included,         \* files of other names that analysis options include
  Configs,          \* package_config.json files
  IncludeOf(_, _),  \* what version v of an options file includes: a file, "none" or "bad"
  Escapes(_, _),    \* version v of a package_config names a path package outside
  Size(_, _),
  Changes,          \* the sets of changed files that are reviewed; a diff lists them in sorted order
  Limits,           \* the limits in force: [inputs, files, bytes, anchors, anchorFile, anchorBytes]
  Delays,           \* length of DART_FILE_ACTIVATION_RETRY_DELAYS
  MaxStarts, MaxEdits, MaxTrouble

\* What the review lists, finds in the repository or knows by its name
InRepository == Range(Files) \ (Outside \cup {Sdk})

\* _is_fingerprint_input, _semantic_context_paths and _implicit_context_paths
OwnInputs == (Listed \cap Inputs) \cup (Sources \ Ignored) \cup (Implicit \cap InRepository)

\* The review lists the files it reviews, and Dart sources are inputs where they are listed
ASSUME ChangesAssumption == \A changed \in Changes : changed \subseteq OwnInputs
ASSUME LibraryAssumption == Listed \cap DOMAIN Library \subseteq Inputs
ASSUME FilesAssumption ==
  /\ OwnInputs \cup {Sdk} \subseteq Range(Files) /\ 0 \in Versions
  /\ "none" \notin OptionsFiles \cup Included
  /\ \A f \in Range(Files), v \in Versions : IncludeOf(f, v) \in Range(Files) \cup {"none", "bad"}

VARIABLES disk, edits, starts, trouble, cache, lim, run

dartVars == <<disk, edits, starts, trouble, cache, lim, run>>

Disk(S) == {<<f, disk[f]>> : f \in S}
Graph(c) == {<<f, c[f]>> : f \in DOMAIN c}
Nothing == [f \in {} |-> 0]
With(c, f) == [g \in DOMAIN c \cup {f} |-> IF g = f THEN disk[f] ELSE c[g]]

\* The files of S whose turn it is: the first one
Place(f) == CHOOSE i \in DOMAIN Files : Files[i] = f
Turn(S) == {f \in S : \A g \in S : Place(f) <= Place(g)}

Idle == [pc |-> "idle", late |-> FALSE, cached |-> FALSE, refresh |-> FALSE,
         changed |-> {}, todo |-> {}, covered |-> {}, followed |-> {}, checked |-> {},
         hashed |-> Nothing, key |-> NoKey, bytes |-> 0,
         sources |-> Nothing, anchors |-> Nothing, files |-> {}, failed |-> {}, unsure |-> {},
         doubt |-> FALSE, up |-> TRUE, tries |-> 0, used |-> {}, disturbed |-> {},
         hit |-> FALSE, result |-> NoEntry]

DartInit ==
  /\ disk = [f \in Range(Files) |-> 0] /\ edits = 0 /\ starts = 0 /\ trouble = 0
  /\ cache = NoEntry /\ lim \in Limits
  /\ run = [r \in Runs |-> Idle]

Active(r) == run[r].pc \notin {"idle", "done", "raised"}

\* What a run does leaves the files alone; each thing that goes wrong is counted
Go(r, x) == run' = [run EXCEPT ![r] = x] /\ UNCHANGED <<disk, edits, starts, cache, lim>>
Costs(n) == trouble' = trouble + n /\ trouble' <= MaxTrouble
Wrong(b) == IF b THEN 1 ELSE 0

-----------------------------------------------------------------------------------
(* What happens around the runs.                                                   *)

\* What the fingerprint of a run has read so far
Fingerprinted(x) == x.followed \cup x.checked \cup DOMAIN x.hashed

\* A file that the fingerprint has read disturbs the run when it is edited before the
\* server has been asked for the last time
Edit(f) ==
  /\ edits < MaxEdits
  /\ \E v \in Versions \ {disk[f]} : disk' = [disk EXCEPT ![f] = v]
  /\ edits' = edits + 1
  /\ run' = [r \in Runs |->
       IF Active(r) /\ run[r].pc \notin {"reconcile", "write"} /\ f \in Fingerprinted(run[r])
       THEN [run[r] EXCEPT !.disturbed = @ \cup {f}] ELSE run[r]]
  /\ UNCHANGED <<starts, trouble, cache, lim>>

\* The deadline of a run passes (config.timeout_seconds)
OutOfTime(r) ==
  /\ Active(r) /\ ~run[r].late
  /\ Go(r, [run[r] EXCEPT !.late = TRUE]) /\ UNCHANGED trouble

-----------------------------------------------------------------------------------
(* Start: resolve_dart_toolchain. No SDK, or a probe of it that fails (a cache or   *)
(* disabled plugins ask for one), ends the run.                                     *)

StartDart(r) ==
  /\ ~Active(r) /\ starts < MaxStarts /\ starts' = starts + 1
  /\ \E cached, refresh, broken \in BOOLEAN, changed \in Changes :
       /\ Costs(Wrong(broken)) /\ (refresh => cached)
       /\ run' = [run EXCEPT ![r] =
            IF broken THEN [Idle EXCEPT !.pc = "raised"]
            ELSE [Idle EXCEPT !.pc = "inventory", !.cached = cached, !.refresh = refresh, !.changed = changed]]
  /\ UNCHANGED <<disk, edits, cache, lim>>

-----------------------------------------------------------------------------------
(* The fingerprint (build_dart_analysis_cache_key, _analysis_fingerprint): the      *)
(* options that others include, then the package configurations, then the hash of   *)
(* every file, each of them read when its turn comes. A deadline, a file that       *)
(* cannot be read, a limit, an include that cannot be resolved or a package outside *)
(* leave the run without a key: it neither looks up nor stores.                     *)

Unkeyed(me) ==
  [me EXCEPT !.pc = "read", !.todo = me.changed, !.cached = FALSE, !.refresh = FALSE,
             !.covered = {}, !.followed = {}, !.checked = {}, !.hashed = Nothing, !.disturbed = {}]

\* _resolve_repo_package_include and relative includes, in the contents d of the moment
Include(d, f) == IncludeOf(f, d[f])

\* _command_identity: the executable of the server and the files among its arguments
CommandFiles == {Sdk}

\* The inventory, the walk over the repository and the files known by their names
WalkInputs(r) ==
  LET me == run[r] IN
  /\ me.pc = "inventory"
  /\ \E unreadable \in BOOLEAN :
       /\ Costs(Wrong(unreadable)) /\ (unreadable => me.cached)
       /\ Go(r, IF ~me.cached \/ me.late \/ unreadable THEN Unkeyed(me)
                ELSE [me EXCEPT !.pc = "include", !.todo = OwnInputs \cap OptionsFiles, !.covered = OwnInputs])

\* Variant: an included options file is followed but not covered
FollowUncovered(r) ==
  LET me == run[r] IN
  /\ me.pc = "include"
  /\ \E f \in Turn(me.todo), unreadable \in BOOLEAN :
       LET next == {Include(disk, f)} \ {"none"} IN
       /\ Costs(Wrong(unreadable))
       /\ Go(r, IF me.late \/ unreadable \/ "bad" \in next THEN Unkeyed(me)
                ELSE [me EXCEPT !.followed = @ \cup {f},
                                !.todo = (@ \cup next) \ (me.followed \cup {f})])

\* The loop of _analysis_options_include_paths
FollowInclude(r) ==
  LET me == run[r] IN
  /\ me.pc = "include"
  /\ \E f \in Turn(me.todo), unreadable \in BOOLEAN :
       LET next == {Include(disk, f)} \ {"none"} IN
       /\ Costs(Wrong(unreadable))
       /\ Go(r, IF me.late \/ unreadable \/ "bad" \in next THEN Unkeyed(me)
                ELSE [me EXCEPT !.followed = @ \cup {f}, !.covered = @ \cup next,
                                !.todo = (@ \cup next) \ (me.followed \cup {f})])

\* _append_context_paths keeps to the limit
IncludesFollowed(r) ==
  LET me == run[r] IN
  /\ me.pc = "include" /\ me.todo = {}
  /\ Go(r, IF me.late \/ Cardinality(me.covered) > lim.inputs THEN Unkeyed(me)
           ELSE [me EXCEPT !.pc = "packages", !.todo = me.covered \cap Configs])
  /\ UNCHANGED trouble

\* The loop of _has_external_path_dependency
CheckPackages(r) ==
  LET me == run[r] IN
  /\ me.pc = "packages"
  /\ \E f \in Turn(me.todo), unreadable \in BOOLEAN :
       /\ Costs(Wrong(unreadable))
       /\ Go(r, IF me.late \/ unreadable \/ Escapes(f, disk[f]) THEN Unkeyed(me)
                ELSE [me EXCEPT !.checked = @ \cup {f}, !.todo = @ \ {f}])

\* The command comes first, the files of the repository follow in the order of their names
HashCommand(r) ==
  LET me == run[r] IN
  /\ me.pc = "packages" /\ me.todo = {}
  /\ Go(r, IF me.late THEN Unkeyed(me)
           ELSE [me EXCEPT !.pc = "hash", !.hashed = With(@, Sdk), !.todo = me.covered])
  /\ UNCHANGED trouble

HashInput(r) ==
  LET me == run[r] IN
  /\ me.pc = "hash"
  /\ \E f \in Turn(me.todo), unreadable \in BOOLEAN :
       /\ Costs(Wrong(unreadable))
       /\ Go(r, IF me.late \/ unreadable THEN Unkeyed(me)
                ELSE [me EXCEPT !.hashed = With(@, f), !.todo = @ \ {f}])

\* The contents are hashed together with the change
TakeKey(r) ==
  LET me == run[r] IN
  /\ me.pc = "hash" /\ me.todo = {}
  /\ Go(r, IF me.late THEN Unkeyed(me)
           ELSE [me EXCEPT !.pc = "load", !.todo = me.changed,
                           !.key = [content |-> me.hashed, changed |-> me.changed]])
  /\ UNCHANGED trouble

\* load_dart_analysis_cache
LoadCache(r) ==
  LET me == run[r] IN
  /\ me.pc = "load"
  /\ \E unreadable \in BOOLEAN :
       /\ Costs(Wrong(unreadable))
       /\ Go(r, IF ~me.late /\ ~me.refresh /\ ~unreadable /\ cache # NoEntry /\ cache.key = me.key
                THEN [Idle EXCEPT !.pc = "done", !.changed = me.changed, !.key = me.key,
                                  !.hit = TRUE, !.result = cache.result]
                ELSE [me EXCEPT !.pc = "read", !.cached = FALSE, !.refresh = FALSE])

-----------------------------------------------------------------------------------
(* Reading the changed files and the anchors.                                       *)

\* The loop over changed_files in run_dart_analyzer
ReadChanged(r) ==
  LET me == run[r]
      Fits(f) == /\ Cardinality(DOMAIN me.sources) < lim.files
                 /\ Size(f, disk[f]) + me.bytes <= lim.bytes
  IN
  /\ me.pc = "read"
  /\ \E f \in Turn(me.todo), unreadable \in BOOLEAN :
       /\ Costs(Wrong(unreadable))
       /\ Go(r, IF me.late
                THEN [me EXCEPT !.todo = {}, !.failed = @ \cup (me.changed \ DOMAIN me.sources)]
                ELSE IF Fits(f) /\ ~unreadable
                THEN [me EXCEPT !.todo = @ \ {f}, !.sources = With(@, f), !.bytes = @ + Size(f, disk[f])]
                ELSE [me EXCEPT !.todo = @ \ {f}, !.failed = @ \cup {f}])

\* A partial result without a session
Without(failed, me) ==
  [Idle EXCEPT !.pc = "done", !.changed = me.changed,
     !.result = [files |-> {}, failed |-> failed, partial |-> TRUE, changed |-> me.changed,
                 used |-> {}, disturbed |-> {}]]

NothingRead(r) ==
  LET me == run[r] IN
  /\ me.pc = "read" /\ me.todo = {} /\ DOMAIN me.sources = {}
  /\ Go(r, Without(me.failed, me)) /\ UNCHANGED trouble

\* reverse_dependency_anchors
FindAnchors(r) ==
  LET me == run[r] IN
  /\ me.pc = "read" /\ me.todo = {} /\ DOMAIN me.sources # {}
  /\ Go(r, [me EXCEPT !.pc = "anchors", !.bytes = 0,
              !.todo = IF me.late THEN {}
                       ELSE Anchors({f \in Listed : Size(f, disk[f]) <= lim.anchorFile},
                                    DOMAIN me.sources, lim.anchors)])
  /\ UNCHANGED trouble

\* The loop over the anchors: one that cannot be read or is too large costs a warning only
ReadAnchor(r) ==
  LET me == run[r] IN
  /\ me.pc = "anchors"
  /\ \E a \in me.todo, unreadable \in BOOLEAN :
       LET f == a[2] IN
       /\ \A b \in me.todo : a[1] <= b[1]
       /\ Costs(Wrong(unreadable))
       /\ Go(r, IF unreadable \/ Size(f, disk[f]) > lim.anchorFile
                    \/ me.bytes + Size(f, disk[f]) > lim.anchorBytes
                THEN [me EXCEPT !.todo = @ \ {a}]
                ELSE [me EXCEPT !.todo = @ \ {a}, !.anchors = With(@, f), !.bytes = @ + Size(f, disk[f])])

\* Flutter detection, platform channels and the index of related tests
Prepare(r) ==
  LET me == run[r] IN
  /\ me.pc = "anchors" /\ me.todo = {}
  /\ \E unclear \in BOOLEAN :
       /\ Costs(Wrong(unclear))
       /\ Go(r, IF me.late THEN Without(me.changed, me)
                ELSE [me EXCEPT !.pc = "launch", !.doubt = unclear])

-----------------------------------------------------------------------------------
(* The session with the server. What the server reads besides the files opened in   *)
(* it (external): the sources, options and package configurations of the            *)
(* repository, ignored by the review or not, what the options of the moment         *)
(* include, the packages outside that a configuration of the moment names, and the  *)
(* SDK.                                                                             *)

Options == OptionsFiles \cup Included
InWorkspace == Sources \cup (Implicit \cap InRepository)

\* The options files that the ones of the workspace include, however far: those in every
\* set that holds the options of the workspace and what its members include
Reached(d) ==
  {f \in Options :
     \A T \in SUBSET Options :
       /\ InWorkspace \cap OptionsFiles \subseteq T
       /\ \A g \in T : Include(d, g) \in Options => Include(d, g) \in T
       => f \in T}

ServerReads(d) ==
  InWorkspace \cup Reached(d) \cup CommandFiles
    \cup {f \in Outside : \E g \in InWorkspace \cap Configs : Escapes(g, d[g])}
Opened(me) ==
  [f \in DOMAIN me.sources \cup DOMAIN me.anchors |->
     IF f \in DOMAIN me.sources THEN me.sources[f] ELSE me.anchors[f]]
Seen(me) == me.used \cup Graph(Opened(me)) \cup Disk(ServerReads(disk) \ DOMAIN Opened(me))

\* DartLspClient, initialize and did_open; any error ends the run (AnalyzerError)
Launch(r) ==
  LET me == run[r] IN
  /\ me.pc = "launch"
  /\ \E dies \in BOOLEAN :
       /\ Costs(Wrong(dies))
       /\ Go(r, IF dies \/ me.late THEN [Idle EXCEPT !.pc = "raised"]
                ELSE [me EXCEPT !.pc = "sync", !.todo = DOMAIN me.sources])

\* _wait_for_workspace_analysis before the files: refused or slow leaves a doubt, the
\* deadline and a dead server end the run
Synchronize(r) ==
  LET me == run[r] IN
  /\ me.pc = "sync"
  /\ \E outcome \in {"complete", "unclear", "dead"} :
       /\ Costs(Wrong(outcome # "complete"))
       /\ Go(r, IF me.late \/ outcome = "dead" THEN [Idle EXCEPT !.pc = "raised"]
                ELSE [me EXCEPT !.pc = "analyze", !.doubt = @ \/ outcome = "unclear", !.used = Seen(me)])

Analyzing(r) == run[r].pc = "analyze" /\ run[r].todo # {}

\* Variant: only the file whose turn it is fails when the deadline has passed
LateForgets(r) ==
  LET me == run[r] IN
  /\ Analyzing(r) /\ me.late
  /\ Go(r, [me EXCEPT !.todo = {}, !.failed = @ \cup Turn(me.todo)])
  /\ UNCHANGED trouble

\* The deadline has passed before a file: it and the files after it fail
AnalyzeTooLate(r) ==
  LET me == run[r] IN
  /\ Analyzing(r) /\ me.late
  /\ Go(r, [me EXCEPT !.todo = {}, !.failed = @ \cup (me.changed \ me.files)])
  /\ UNCHANGED trouble

\* _optional_request: one that is slow leaves the file unsure, one that is refused costs
\* a warning only
Optional(me, f, slow) == IF slow THEN me.unsure \cup {f} ELSE me.unsure

\* _enrich_dart_symbol: so does more than the limits let through
Enriched(me, f, slow, limited) ==
  Optional(me, f, slow) \cup (IF limited THEN {f} ELSE {})

\* _analyze_dart_file
AnalyzeFile(r) ==
  LET me == run[r] IN
  /\ Analyzing(r) /\ ~me.late /\ me.up
  /\ \E f \in Turn(me.todo), slow, limited \in BOOLEAN :
       /\ Costs(Wrong(slow) + Wrong(limited))
       /\ Go(r, [me EXCEPT !.todo = @ \ {f}, !.tries = 0, !.files = @ \cup {f},
                           !.unsure = Enriched(me, f, slow, limited), !.used = Seen(me)])

\* Variant: the last delay is used again and again
ActivationRaceForEver(r) ==
  LET me == run[r] IN
  /\ Analyzing(r) /\ ~me.late /\ me.up
  /\ Go(r, [me EXCEPT !.tries = IF @ < Delays THEN @ + 1 ELSE Delays - 1])
  /\ UNCHANGED trouble

\* _request_document_symbols: the file is not analyzed yet; asked again after a delay,
\* and given up after the last one
ActivationRace(r) ==
  LET me == run[r] IN
  /\ Analyzing(r) /\ ~me.late /\ me.up
  /\ \E f \in Turn(me.todo) :
       Go(r, IF me.tries < Delays THEN [me EXCEPT !.tries = @ + 1]
             ELSE [me EXCEPT !.tries = 0, !.todo = @ \ {f}, !.failed = @ \cup {f}])
  /\ UNCHANGED trouble

\* A required request fails, or the deadline passes within the file; the server may be gone
AnalyzeFails(r) ==
  LET me == run[r] IN
  /\ Analyzing(r) /\ ~me.late
  /\ \E f \in Turn(me.todo), up \in {me.up, FALSE} :
       /\ Costs(Wrong(me.up))
       /\ Go(r, [me EXCEPT !.todo = @ \ {f}, !.tries = 0, !.failed = @ \cup {f}, !.up = up])

\* _wait_for_workspace_analysis after the files: whatever goes wrong leaves a doubt
Finalize(r) ==
  LET me == run[r] IN
  /\ me.pc = "analyze" /\ me.todo = {}
  /\ \E refused \in BOOLEAN :
       /\ Costs(Wrong(refused))
       /\ Go(r, [me EXCEPT !.pc = "reconcile", !.doubt = @ \/ refused \/ me.late \/ ~me.up,
                           !.todo = me.files])

\* _reconcile_lsp_document_metadata
Reconcile(r) ==
  LET me == run[r] IN
  /\ me.pc = "reconcile"
  /\ \E f \in Turn(me.todo), cut \in BOOLEAN :
       /\ Costs(Wrong(cut))
       /\ Go(r, IF me.late THEN [me EXCEPT !.todo = {}, !.unsure = @ \cup me.todo]
                ELSE [me EXCEPT !.todo = @ \ {f}, !.unsure = IF cut THEN @ \cup {f} ELSE @])

Partial(me, doubt) == me.failed # {} \/ doubt \/ me.unsure # {}

\* The session is over: notifications that were dropped and references that could not
\* be read leave a doubt
Conclude(r) ==
  LET me == run[r] IN
  /\ me.pc = "reconcile" /\ me.todo = {}
  /\ \E lost \in BOOLEAN :
       /\ Costs(Wrong(lost))
       /\ Go(r, [me EXCEPT !.pc = "write", !.doubt = @ \/ lost,
            !.result = [files |-> me.files, failed |-> me.failed, changed |-> me.changed,
                        partial |-> Partial(me, me.doubt \/ lost),
                        used |-> me.used, disturbed |-> {}]])

\* write_dart_analysis_cache: a temporary file replaces the cache file, or nothing happens
WriteCache(r) ==
  LET me == run[r] IN
  /\ me.pc = "write"
  /\ \E fails \in BOOLEAN :
       /\ Costs(Wrong(fails))
       /\ cache' = IF me.result.partial \/ me.late \/ me.key = NoKey \/ fails THEN cache
                   ELSE [key |-> me.key, result |-> [me.result EXCEPT !.disturbed = me.disturbed]]
  /\ run' = [run EXCEPT ![r] = [Idle EXCEPT !.pc = "done", !.changed = me.changed,
                                          !.result = [me.result EXCEPT !.used = {}],
                                          !.doubt = me.doubt, !.unsure = me.unsure, !.up = me.up]]
  /\ UNCHANGED <<disk, edits, starts, lim>>

Work(r) ==
  \/ WalkInputs(r) \/ FollowInclude(r) \/ IncludesFollowed(r) \/ CheckPackages(r) \/ HashCommand(r)
  \/ HashInput(r) \/ TakeKey(r) \/ LoadCache(r) \/ ReadChanged(r) \/ NothingRead(r)
  \/ FindAnchors(r) \/ ReadAnchor(r) \/ Prepare(r) \/ Launch(r) \/ Synchronize(r) \/ AnalyzeTooLate(r)
  \/ AnalyzeFile(r) \/ ActivationRace(r) \/ AnalyzeFails(r) \/ Finalize(r) \/ Reconcile(r)
  \/ Conclude(r) \/ WriteCache(r)

DartNext ==
  \/ \E f \in Editable : Edit(f)
  \/ \E r \in Runs : StartDart(r) \/ OutOfTime(r) \/ Work(r)

\* A run goes on as long as it can: every request and every wait of it is bounded
DartSpec == DartInit /\ [][DartNext]_dartVars /\ \A r \in Runs : WF_dartVars(Work(r))

-----------------------------------------------------------------------------------
\* Files whose contents lead the server to others
Leading == Options \cup Configs

\* What was used is what the key of the contents c says, but for a file edited after the
\* fingerprint had read it, for the files in ignored directories, and for files outside
\* the key to which one of those led the server
RestsOn(used, disturbed, c) ==
  \A u \in used :
    LET f == u[1] IN
    \/ f \in DOMAIN c /\ u[2] = c[f]
    \/ f \in disturbed
    \/ f \notin DOMAIN c /\ (f \in Ignored \/ Leading \cap (disturbed \cup Ignored) # {})

\* A served result was made for the same change and is complete, and whatever the server
\* read for it, files it found by itself through the options and the package
\* configurations of that moment included, is what the serving run has hashed, although
\* the fingerprint reads the files one after the other while they are edited. Only a file
\* edited between its hashing and the end of the session may differ
\* (_analysis_fingerprint, load_dart_analysis_cache)
ServedRestsOnItsInputs ==
  \A r \in Runs :
    run[r].hit =>
      /\ ~run[r].result.partial
      /\ run[r].result.changed = run[r].changed
      /\ run[r].result.files = run[r].changed
      /\ RestsOn(run[r].result.used, run[r].result.disturbed, run[r].key.content)

\* A result tells of every changed file whether it was analyzed, never both, and one that
\* is not partial rests on a session in which nothing was lost (run_dart_analyzer)
EveryFileAccounted ==
  \A r \in Runs :
    LET me == run[r] IN
    me.pc = "done" =>
      /\ me.result.files \cup me.result.failed = me.changed
      /\ me.result.files \cap me.result.failed = {}
      /\ ~me.result.partial => me.hit \/ (me.up /\ ~me.doubt /\ me.unsure = {})

\* Every run that starts comes to a result or an error, however often the server says that
\* a file is not analyzed yet (DART_FILE_ACTIVATION_RETRY_DELAYS)
DartRunEnds == \A r \in Runs : (run[r].pc = "inventory") ~> (run[r].pc \in {"done", "raised"})
===================================================================================
