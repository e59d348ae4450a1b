---------------------------------- MODULE LocalFiles -----------------------------------
(* The local files that runs share: the triage state, its event log and the report     *)
(* archive. `findings suppress`, `unsuppress`, `prune` and `suppressions` read, change *)
(* and rewrite the state and then the log; a gate run reads the state, decides, asks   *)
(* its resolver, archives its reports, and only then writes the state and the log back *)
(* (pre_push). Nothing locks the files. A write replaces a file as a whole.            *)
EXTENDS TriageState, Integers

CONSTANTS
  Procs,         \* processes: worktrees of a clone share the files
  Findings, Bases, Configs,
  Dates,         \* the times --expires names
  Lifetime,      \* triage.default_expiry_days
  EventDays,     \* triage.events_retention_days
  Retention,     \* reports.retention
  Artifacts,     \* number of files a run archives
  MaxNow, MaxEdits, MaxStarts, MaxTrouble

ASSUME TimesAssumption == Dates \subseteq Nat /\ Lifetime \in Nat /\ EventDays \in Nat
ASSUME LimitsAssumption == Retention \in Nat /\ Artifacts \in Nat
ASSUME ConfigsAssumption == Configs \subseteq [triage : BOOLEAN, archive : BOOLEAN]

VARIABLES
  cfg,           \* [triage, archive]: which of the two are enabled
  now, pack, starts, trouble,
  file, rev,     \* the triage state and how often it was written
  log, logRev,   \* the events, as [kind, id, at]
  dirs,          \* archive directories: name -> [parts, manifest]
  run,
  ended,         \* suppressions that left the file, other than replaced ones: [id, at]
  crossed,       \* a file was replaced that its writer had not read, or a run died half-way
  made, doomed   \* archive directories ever made, and those chosen for removal

files == <<file, rev, log, logRev, dirs>>
localVars == <<cfg, now, pack, starts, trouble, files, run, ended, crossed, made, doomed>>

Idle == [pc |-> "idle", state |-> {}, rev |-> 0, events |-> {}, ends |-> {}, hidden |-> {},
         base |-> NoBase, old |-> {}, logRev |-> 0, dir |-> 0, stale |-> {}]

LocalInit ==
  /\ cfg \in Configs /\ now = 1 /\ pack = [f \in Findings |-> 1] /\ starts = 0 /\ trouble = 0
  /\ file = {} /\ rev = 0 /\ log = {} /\ logRev = 0 /\ dirs = << >>
  /\ run = [p \in Procs |-> Idle] /\ ended = {} /\ crossed = FALSE /\ made = {} /\ doomed = {}

Events(kind, ids) == {[kind |-> kind, id |-> i, at |-> now] : i \in ids}
Ends(ids) == {[id |-> i, at |-> now] : i \in ids}
Set(p, r) == run' = [run EXCEPT ![p] = r]
Costs(b) == trouble' = trouble + (IF b THEN 1 ELSE 0) /\ trouble' <= MaxTrouble

Tick ==
  /\ now < MaxNow /\ now' = now + 1
  /\ UNCHANGED <<cfg, pack, starts, trouble, files, run, ended, crossed, made, doomed>>

\* A commit changes the code around a finding
Edit(f) ==
  /\ pack[f] <= MaxEdits /\ pack' = [pack EXCEPT ![f] = @ + 1]
  /\ UNCHANGED <<cfg, now, starts, trouble, files, run, ended, crossed, made, doomed>>

----------------------------------------------------------------------------------------
(* The commands of cli/findings.py: each loads the state, changes it and writes it.    *)

Started(p) ==
  /\ run[p].pc = "idle" /\ starts < MaxStarts /\ starts' = starts + 1
  /\ UNCHANGED <<cfg, now, pack, files, ended, made, doomed>>

\* load_triage_state: what cannot be read counts as empty
Loaded(unreadable) == IF unreadable THEN {} ELSE file

Changed(p, state, events, ends) ==
  Set(p, [Idle EXCEPT !.pc = "save", !.state = state, !.rev = rev, !.events = events, !.ends = ends])

\* create_suppression and _parse_expiry
Suppression(id, f, v, base, until) ==
  [id |-> id, finding |-> f, pack |-> v, base |-> base, born |-> now, until |-> until, matched |-> 0,
   place |-> id]
\* The default lifetime, which "never" gets as well, or a time the user names
Expiries == {now + Lifetime} \cup Dates

\* suppress_finding: the report, and with it the pack, may be an earlier one
Suppress(p, f, base, until) ==
  /\ cfg.triage /\ Started(p)
  /\ \E v \in 0 .. pack[f], unreadable \in BOOLEAN :
       LET s     == Suppression(starts', f, v, base, until)
           added == AddOrReplace(Loaded(unreadable), s)
           next  == Pruned(added, now)
           late  == Lapsed(added, now)
           over  == (Ids(added) \ Ids(next)) \ late
       IN /\ Costs(unreadable) /\ crossed' = (crossed \/ unreadable)
          /\ Changed(p, next, Events("created", {s.id}) \cup Events("expired", late) \cup Events("pruned", over),
                     Ends(late \cup over))

\* unsuppress_finding
Unsuppress(p, selector) ==
  /\ Started(p)
  /\ \E unreadable \in BOOLEAN :
       LET state == Loaded(unreadable)
           ids   == Ids(Removed(state, selector))
       IN /\ Costs(unreadable) /\ crossed' = (crossed \/ unreadable)
          /\ IF ids = {} THEN UNCHANGED run
             ELSE Changed(p, Without(state, ids), Events("removed", ids), Ends(ids))

\* prune_findings writes whatever it found; list_suppressions only a change
Prune(p, listing) ==
  /\ Started(p)
  /\ \E unreadable \in BOOLEAN :
       LET state == Loaded(unreadable)
           next  == Pruned(state, now)
           late  == Lapsed(state, now)
           over  == (Ids(state) \ Ids(next)) \ late
       IN /\ Costs(unreadable) /\ crossed' = (crossed \/ unreadable)
          /\ IF listing /\ next = state THEN UNCHANGED run
             ELSE Changed(p, next, Events("expired", late) \cup Events("pruned", over), Ends(late \cup over))

----------------------------------------------------------------------------------------
(* A gate run, from the report on (pre_push).                                          *)

Candidates(F, oldest) == {[finding |-> f, pack |-> IF oldest THEN 1 ELSE pack[f]] : f \in F}

\* The blocking findings of the report pass through the suppressions that are in force
Decide(p, F, base) ==
  /\ Started(p)
  /\ \E unreadable \in BOOLEAN :
       LET state == Loaded(unreadable)
           kept  == Pruned(state, now)
           late  == Lapsed(state, now)
           over  == (Ids(state) \ Ids(kept)) \ late
           a     == Apply(Candidates(F, FALSE), kept, base, now)
       IN /\ Costs(unreadable) /\ (unreadable => cfg.triage) /\ crossed' = (crossed \/ unreadable)
          /\ Set(p, IF ~cfg.triage THEN [Idle EXCEPT !.pc = "resolve", !.base = base]
                    ELSE [Idle EXCEPT !.pc = "resolve", !.base = base, !.rev = rev, !.state = a.state,
                            !.events = Events("expired", late) \cup Events("pruned", over)
                                         \cup Events("stale", a.stale) \cup Events("matched", {h[2].id : h \in a.hidden}),
                            !.ends = Ends(late \cup over \cup a.stale),
                            !.hidden = {<<h[1], h[2], now>> : h \in a.hidden}])

\* The findings carried from earlier runs that the resolver left, with the packs they had
Carry(p, F) ==
  LET me == run[p]
      a  == Apply(Candidates(F, TRUE), me.state, me.base, now)
      next == IF cfg.archive THEN "archive" ELSE IF cfg.triage THEN "save" ELSE "idle"
  IN
  /\ me.pc = "resolve"
  /\ Set(p, IF ~cfg.triage THEN [me EXCEPT !.pc = next]
            ELSE [me EXCEPT !.pc = next, !.state = a.state,
                    !.events = @ \cup Events("stale", a.stale) \cup Events("matched", {h[2].id : h \in a.hidden}),
                    !.ends = @ \cup Ends(a.stale),
                    !.hidden = @ \cup {<<h[1], h[2], now>> : h \in a.hidden}])
  /\ UNCHANGED <<cfg, now, pack, starts, trouble, files, ended, crossed, made, doomed>>

----------------------------------------------------------------------------------------
(* archive_report_artifacts. A directory is named after the time of the report and a   *)
(* random part; any error ends the whole run.                                          *)

Archiving(p, pc) ==
  run[p].pc = pc /\ UNCHANGED <<cfg, now, pack, starts, trouble, file, rev, log, logRev, ended, crossed>>

\* _unique_run_dir; the report is from now or from a moment ago
MakeDir(p) ==
  /\ Archiving(p, "archive")
  /\ \E at \in {now - 1, now}, part \in 0 .. 1 :
       LET name == 2 * at + part IN
       /\ name \notin made
       /\ dirs' = [d \in DOMAIN dirs \cup {name} |->
                      IF d = name THEN [parts |-> 0, manifest |-> FALSE] ELSE dirs[d]]
       /\ made' = made \cup {name}
       /\ Set(p, [run[p] EXCEPT !.pc = "write", !.dir = name])
  /\ UNCHANGED doomed

\* Variant: the manifest is written before the artifacts
WriteManifestFirst(p) ==
  LET me == run[p] IN
  /\ Archiving(p, "write")
  /\ IF me.dir \notin DOMAIN dirs THEN Set(p, Idle) /\ UNCHANGED dirs
     ELSE LET d == dirs[me.dir] IN
          /\ dirs' = [dirs EXCEPT ![me.dir] = IF ~d.manifest THEN [d EXCEPT !.manifest = TRUE]
                                              ELSE [d EXCEPT !.parts = @ + 1]]
          /\ Set(p, IF d.parts = Artifacts THEN [me EXCEPT !.pc = "prune"] ELSE me)
  /\ UNCHANGED <<made, doomed>>

\* The artifacts one by one, then manifest.json
WriteFile(p) ==
  LET me == run[p] IN
  /\ Archiving(p, "write")
  /\ IF me.dir \notin DOMAIN dirs THEN Set(p, Idle) /\ UNCHANGED dirs
     ELSE IF dirs[me.dir].parts < Artifacts
          THEN dirs' = [dirs EXCEPT ![me.dir].parts = @ + 1] /\ UNCHANGED run
          ELSE dirs' = [dirs EXCEPT ![me.dir].manifest = TRUE] /\ Set(p, [me EXCEPT !.pc = "prune"])
  /\ UNCHANGED <<made, doomed>>

\* _prune_archives: the directories beyond the newest ones, by name
ListStale(p) ==
  LET stale == {d \in DOMAIN dirs : Cardinality({e \in DOMAIN dirs : e > d}) >= Retention}
  IN
  /\ Archiving(p, "prune")
  /\ Set(p, [run[p] EXCEPT !.pc = "remove", !.stale = stale])
  /\ doomed' = doomed \cup stale
  /\ UNCHANGED <<dirs, made>>

\* shutil.rmtree (external): entry by entry, then the directory. One that is gone, or that
\* gains an entry meanwhile, is an error
RemoveEntry(p) ==
  LET me == run[p] IN
  /\ Archiving(p, "remove")
  /\ \E n \in me.stale :
     /\ \A m \in me.stale : n <= m
     /\ \/ /\ n \in DOMAIN dirs /\ dirs[n].parts > 0
           /\ dirs' = [dirs EXCEPT ![n].parts = @ - 1] /\ UNCHANGED run
        \/ /\ n \in DOMAIN dirs /\ dirs[n].manifest
           /\ dirs' = [dirs EXCEPT ![n].manifest = FALSE] /\ UNCHANGED run
        \/ /\ n \in DOMAIN dirs /\ dirs[n].parts = 0 /\ ~dirs[n].manifest
           /\ dirs' = [d \in DOMAIN dirs \ {n} |-> dirs[d]]
           /\ Set(p, [me EXCEPT !.stale = @ \ {n}])
        \/ /\ n \notin DOMAIN dirs \/ \E q \in Procs \ {p} : run[q].pc = "write" /\ run[q].dir = n
           /\ Set(p, Idle) /\ UNCHANGED dirs
  /\ UNCHANGED <<made, doomed>>

Archived(p) ==
  /\ Archiving(p, "remove") /\ run[p].stale = {}
  /\ Set(p, [run[p] EXCEPT !.pc = IF cfg.triage THEN "save" ELSE "idle", !.dir = 0])
  /\ UNCHANGED <<dirs, made, doomed>>

----------------------------------------------------------------------------------------
(* write_triage_state and append_triage_events.                                        *)

\* A gate run without anything to say does not create the file
SaveState(p) ==
  LET me == run[p]
      quiet == me.state = {} /\ me.events = {} /\ rev = 0
  IN
  /\ me.pc = "save"
  /\ IF quiet THEN Set(p, Idle) /\ UNCHANGED <<file, rev, ended, crossed>>
     ELSE /\ file' = me.state /\ rev' = rev + 1
          /\ crossed' = (crossed \/ rev # me.rev)
          /\ ended' = ended \cup me.ends
          /\ Set(p, [Idle EXCEPT !.pc = "log", !.events = me.events])
  /\ UNCHANGED <<cfg, now, pack, starts, trouble, log, logRev, dirs, made, doomed>>

\* load_triage_events: a log that cannot be read counts as empty
ReadLog(p) ==
  /\ run[p].pc = "log"
  /\ \E unreadable \in BOOLEAN :
       /\ Costs(unreadable) /\ crossed' = (crossed \/ unreadable)
       /\ Set(p, [run[p] EXCEPT !.pc = "append", !.old = IF unreadable THEN {} ELSE log, !.logRev = logRev])
  /\ UNCHANGED <<cfg, now, pack, starts, files, ended, made, doomed>>

\* Variant: the log keeps the events of the last command only
WriteLogAnew(p) ==
  LET me == run[p] IN
  /\ me.pc = "append"
  /\ log' = {e \in me.events : e.at + EventDays >= now} /\ logRev' = logRev + 1
  /\ crossed' = (crossed \/ logRev # me.logRev)
  /\ Set(p, Idle)
  /\ UNCHANGED <<cfg, now, pack, starts, trouble, file, rev, dirs, ended, made, doomed>>

\* append_triage_events
WriteLog(p) ==
  LET me == run[p] IN
  /\ me.pc = "append"
  /\ log' = {e \in me.old \cup me.events : e.at + EventDays >= now} /\ logRev' = logRev + 1
  /\ crossed' = (crossed \/ logRev # me.logRev)
  /\ Set(p, Idle)
  /\ UNCHANGED <<cfg, now, pack, starts, trouble, file, rev, dirs, ended, made, doomed>>

\* A process is killed
Crash(p) ==
  /\ run[p].pc # "idle" /\ Costs(TRUE) /\ Set(p, Idle)
  /\ crossed' = (crossed \/ run[p].pc \in {"log", "append"})
  /\ UNCHANGED <<cfg, now, pack, starts, files, ended, made, doomed>>

LocalNext ==
  \/ Tick
  \/ \E f \in Findings : Edit(f)
  \/ \E p \in Procs :
       \/ \E f \in Findings, base \in Bases \cup {NoBase}, until \in Expiries : Suppress(p, f, base, until)
       \/ \E selector \in Findings \cup (1 .. MaxStarts) : Unsuppress(p, selector)
       \/ \E listing \in BOOLEAN : Prune(p, listing)
       \/ \E F \in SUBSET Findings, base \in Bases : Decide(p, F, base)
       \/ \E F \in SUBSET Findings : Carry(p, F)
       \/ MakeDir(p) \/ WriteFile(p) \/ ListStale(p) \/ RemoveEntry(p) \/ Archived(p)
       \/ SaveState(p) \/ ReadLog(p) \/ WriteLog(p) \/ Crash(p)

LocalSpec == LocalInit /\ [][LocalNext]_localVars

----------------------------------------------------------------------------------------
\* What a gate run passes over, a suppression of exactly this finding, base and context pack
\* was in force for at that moment; and unless a file was replaced that its writer had not
\* read, none that a user, a prune or a changed pack had taken out before the run loaded the
\* state (apply_suppressions, remove_suppressions)
HiddenByAgreement ==
  \A p \in Procs : \A h \in run[p].hidden :
    LET c == h[1] s == h[2] IN
    /\ s.finding = c.finding /\ s.until > h[3]
    /\ s.pack = 0 \/ c.pack = 0 \/ s.pack = c.pack
    /\ s.base = NoBase \/ run[p].base = NoBase \/ s.base = run[p].base
    /\ crossed \/ rev # run[p].rev \/ s.id \notin {e.id : e \in ended}

\* Every suppression that left the file is in the log as long as events are kept, or about
\* to be, unless files were replaced unread or a run died between the two writes
\* (append_triage_events)
EveryEndIsLogged ==
  crossed \/ \A e \in ended :
    \/ now > e.at + EventDays
    \/ \E l \in log \cup UNION {run[p].events : p \in {q \in Procs : run[q].pc \in {"log", "append"}}} :
         l.id = e.id /\ l.at = e.at /\ l.kind \in {"expired", "pruned", "removed", "stale"}

\* However runs overlap, none chooses one of the newest directories for removal, and a
\* directory that has its manifest and was not chosen has every file the manifest names
\* (_prune_archives, archive_report_artifacts)
ArchivesKept ==
  /\ \A d \in doomed : Cardinality({e \in made : e > d}) >= Retention
  /\ \A d \in DOMAIN dirs \ doomed : dirs[d].manifest => dirs[d].parts = Artifacts
========================================================================================
