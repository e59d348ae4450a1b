------------------------------- MODULE GateRetry -------------------------------
(***************************************************************************)
(* The pre-push gate of Apex Ray with incremental retry enabled:           *)
(* `apex-ray gate pre-push` (cli/gate.py), the state it persists between   *)
(* attempts (gate_retry.py) and the identity of the diff it reviewed       *)
(* (pipeline/snapshot.py).                                                 *)
(*                                                                         *)
(* A context pack is identified with the commit whose changes it shows,    *)
(* and a finding with the pack that it was found in.  The text of a diff   *)
(* is the set of commits it spans.  The gate runs step by step; between    *)
(* two steps the developer commits, checks out, fetches, edits the         *)
(* configuration, triages findings or continues the saved report by hand,  *)
(* and the gate may be killed.                                             *)
(***************************************************************************)
EXTENDS Integers, FiniteSets

CONSTANTS
    Commits,        \* commits that HEAD or the base ref may point at
    Anc,            \* Anc[c]: the ancestors of c, c included
    Bases,          \* the commits the target base ref may point at
    Configs,        \* fingerprints of a review configuration
    Buggy,          \* commits whose pack a reviewer may report a finding in
    Touches,        \* Touches[c]: findings whose resolution surface c changes
    Erases,         \* Erases[c]: findings whose evidence text c removes
    Severity,       \* Severity[f]: 0 is the most severe
    MaxResolutions, \* max_resolution_calls_per_retry
    AutoFollowup,   \* gates.pre_push.auto_followup
    MaxFollowup,    \* auto_followup_max_pack_reviews
    RefRaces,       \* TRUE: refs may move anywhere while a gate runs
    MaxMoves,       \* bound on what happens outside the gate's own steps
    None            \* no state, no report

\* A commit history in which two commits have one best common ancestor.
ASSUME HistoryAssumption ==
    /\ Anc \in [Commits -> SUBSET Commits]
    /\ \A c \in Commits : c \in Anc[c]
    /\ \A c \in Commits : \A d \in Anc[c] : Anc[d] \subseteq Anc[c]
    /\ \A c, d \in Commits : \E m \in Commits : Anc[m] = Anc[c] \cap Anc[d]
    /\ Bases \subseteq Commits /\ Bases # {}

ASSUME PolicyAssumption ==
    /\ Configs # {}
    /\ Buggy \subseteq Commits
    /\ Touches \in [Commits -> SUBSET Commits]
    /\ \A c \in Commits : c \in Touches[c]
    /\ Erases \in [Commits -> SUBSET Commits]
    /\ Severity \in [Commits -> Nat]
    /\ MaxResolutions \in Nat \ {0}
    /\ AutoFollowup \in BOOLEAN /\ RefRaces \in BOOLEAN
    /\ MaxFollowup \in Nat /\ MaxMoves \in Nat

VARIABLES
    \* the developer's side
    head,           \* where HEAD points
    base,           \* where the target base ref points
    config,         \* fingerprint of the configuration files
    suppressions,   \* findings with an active local suppression
    moves,          \* how many of the MaxMoves outside moves were made
    manual,         \* the report a manual continuation has loaded, or None
    \* the files
    stateFile,      \* pre-push-state.json; None when absent or unreadable
    reportFile,     \* pre-push.json
    \* one run of the gate
    pc,
    pushed,         \* the commit `git push` resolved before running the hook
    cfg,            \* the configuration the run loaded
    prevReport,     \* previous_report
    curHead,        \* current_head
    mergeBase,      \* merge_base_sha
    retry,          \* retry_state
    mode,           \* "full", "fallback", "refresh", "incremental", "coverage", "resolution"
    pending,        \* coverage_retry_has_pending_delta
    report,         \* the report of the run, with its input snapshot
    triage,         \* the suppressions the run loaded
    current,        \* current_decision.blocking_findings, after triage
    carried,        \* active_carried_findings, after triage
    asked,          \* findings sent to the resolver in this run
    resolved,       \* findings the resolver returned `resolved` for
    stale,          \* carried findings dropped as stale
    hidden,         \* findings a suppression took out of the decision
    \* history, written with the state file
    reviewed,       \* reviewed[k]: packs reviewed under configuration k
    open,           \* open[k]: findings reported under k and not disposed of
    waived,         \* open findings that a gate run left out as suppressed
    dropped,        \* open findings that a gate run dropped as stale
    attempted       \* findings the resolver was asked on the saved evidence

devVars  == <<head, base, config, suppressions, moves, manual>>
fileVars == <<stateFile, reportFile>>
runVars  == <<pushed, cfg, prevReport, curHead, mergeBase, retry, mode, pending, report>>
decision == <<triage, current, carried, asked, resolved, stale, hidden>>  \* of the run
history  == <<reviewed, open, waived, dropped, attempted>>
vars     == <<devVars, fileVars, pc, runVars, decision, history>>

--------------------------------------------------------------------------------
(* Git and the records that the gate keeps.                                *)

MergeBase(b, h) == CHOOSE m \in Commits : Anc[m] = Anc[b] \cap Anc[h]

\* The commits that `git diff from..to` spans, `from` an ancestor of `to` or not.
Span(from, to) == Anc[to] \ Anc[from]

\* A report with its input snapshot: the diff it reviews, the packs of that
\* diff that a reviewer completed, and the findings.
Report == [target : {"base", "range"}, from : Commits, head : Commits,
           config : Configs, packs : SUBSET Commits,
           reviewed : SUBSET Commits, findings : SUBSET Commits]

\* A finding carried from an earlier attempt; deferred says that its last
\* resolution was skipped at the call limit.
Carried == [finding : Commits, deferred : BOOLEAN]

State == [head : Commits, mergeBase : Commits, config : Configs,
          active : SUBSET Carried, report : Report]

ASSUME NoneAssumption ==
    None \notin Commits /\ None \notin Configs /\ None \notin Report /\ None \notin State

Found(cs) == {c.finding : c \in cs}

\* Coverage debt: a pack of the report is not reviewed and the policy fails on it.
Debt(r) == r.reviewed # r.packs

\* What validate_review_input_snapshot recomputes from the live refs.
SnapshotIsLive(r) ==
    /\ head = r.head
    /\ r.target = "base" => MergeBase(base, head) = r.from
    /\ r.packs = Span(r.from, head)

\* The report of the previous attempt may be resumed to pay its coverage debt.
RetryCoverage(s, r) ==
    /\ s # None /\ r # None
    /\ Debt(s.report)
    /\ <<r.target, r.from, r.head>> = <<s.report.target, s.report.from, s.report.head>>
    /\ r.head = s.head
    /\ r.target = "base" => r.from = s.mergeBase
    /\ r.config = cfg
    /\ r.packs # {} /\ r.packs = s.report.packs
    /\ s.report.reviewed \subseteq r.reviewed

PackOmits(c, r, cur) == c.finding \in r.reviewed /\ c.finding \notin cur
MayBeResolved(c, r)  == \E d \in r.packs : c.finding \in Touches[d]

\* The exact report of the previous attempt may be resumed to resolve the
\* findings that the call limit left out.
RetryResolution(s, r) ==
    /\ s # None /\ r # None
    /\ curHead = s.head /\ s.config = cfg
    /\ r = s.report /\ r.config = cfg
    /\ \E c \in s.active : /\ c.deferred
                           /\ PackOmits(c, r, r.findings) \/ MayBeResolved(c, r)

EligibleAcrossBases(s) == s # None /\ s.config = cfg /\ s.head \in Anc[curHead]

\* The saved state is a baseline for the commits since its head.
Eligible(s) ==
    /\ s # None
    /\ s.mergeBase = mergeBase
    /\ s.config = cfg
    /\ s.head \in Anc[curHead]

--------------------------------------------------------------------------------
(* Initial state.                                                          *)

IdleRun ==
    /\ pc = "idle"
    /\ pushed = None /\ cfg = None /\ curHead = None /\ mergeBase = None
    /\ prevReport = None /\ retry = None /\ mode = "full" /\ pending = FALSE
    /\ report = None /\ triage = {} /\ current = {} /\ carried = {}
    /\ asked = {} /\ resolved = {} /\ stale = {} /\ hidden = {}

Init ==
    /\ head \in Commits /\ base \in Bases /\ config \in Configs
    /\ suppressions = {} /\ moves = 0 /\ manual = None
    /\ stateFile = None /\ reportFile = None
    /\ IdleRun
    /\ reviewed = [k \in Configs |-> {}] /\ open = [k \in Configs |-> {}]
    /\ waived = {} /\ dropped = {} /\ attempted = {}

--------------------------------------------------------------------------------
(* The developer and the operating system.                                 *)

Move == moves < MaxMoves /\ moves' = moves + 1

\* A commit, or a checkout or an amend of another commit.
MoveHead(h) ==
    /\ Move
    /\ h # head
    /\ pc = "idle" \/ RefRaces \/ head \in Anc[h]
    /\ head' = h
    /\ UNCHANGED <<base, config, suppressions, manual, fileVars, pc, runVars, decision, history>>

\* A fetch, or --base naming another commit.
MoveBase(b) ==
    /\ Move
    /\ b # base
    /\ pc = "idle" \/ RefRaces
    /\ base' = b
    /\ UNCHANGED <<head, config, suppressions, manual, fileVars, pc, runVars, decision, history>>

ChangeConfig(k) ==
    /\ Move
    /\ k # config
    /\ config' = k
    /\ UNCHANGED <<head, base, suppressions, manual, fileVars, pc, runVars, decision, history>>

\* `findings suppress`: the finding is one of the saved report.
Suppress(f) ==
    /\ Move
    /\ reportFile # None /\ f \in reportFile.findings \ suppressions
    /\ suppressions' = suppressions \cup {f}
    /\ UNCHANGED <<head, base, config, manual, fileVars, pc, runVars, decision, history>>

\* `findings unsuppress`, or the suppression expires.
Unsuppress(f) ==
    /\ Move
    /\ f \in suppressions
    /\ suppressions' = suppressions \ {f}
    /\ UNCHANGED <<head, base, config, manual, fileVars, pc, runVars, decision, history>>

\* `review --continue-from pre-push.json` loads the report and checks its snapshot.
ManualLoad ==
    /\ Move
    /\ manual = None /\ reportFile # None
    /\ Debt(reportFile)
    /\ SnapshotIsLive(reportFile)
    /\ manual' = reportFile
    /\ UNCHANGED <<head, base, config, suppressions, fileVars, pc, runVars, decision, history>>

\* It reviews some of the missing packs and, if the snapshot is still the live
\* one, replaces the saved report.
ManualWrite ==
    /\ manual # None
    /\ manual' = None
    /\ \/ /\ SnapshotIsLive(manual)
          /\ \E done \in SUBSET (manual.packs \ manual.reviewed) :
             \E found \in SUBSET (done \cap Buggy) :
                reportFile' = [manual EXCEPT !.reviewed = @ \cup done,
                                             !.findings = @ \cup found]
       \/ /\ ~SnapshotIsLive(manual)
          /\ UNCHANGED reportFile
    /\ UNCHANGED <<head, base, config, suppressions, moves, stateFile, pc, runVars, decision, history>>

ResetRun ==
    /\ pc' = "idle"
    /\ pushed' = None /\ cfg' = None /\ curHead' = None /\ mergeBase' = None
    /\ prevReport' = None /\ retry' = None /\ mode' = "full" /\ pending' = FALSE
    /\ report' = None /\ triage' = {} /\ current' = {} /\ carried' = {}
    /\ asked' = {} /\ resolved' = {} /\ stale' = {} /\ hidden' = {}

\* The run is killed, or a git or provider error ends it.  The state file is
\* not replaced atomically: killed in the middle of that write it is unreadable.
Crash ==
    /\ Move
    /\ pc # "idle"
    /\ ResetRun
    /\ \/ UNCHANGED stateFile
       \/ pc = "state" /\ stateFile' = None
    /\ UNCHANGED <<head, base, config, suppressions, manual, reportFile, history>>

--------------------------------------------------------------------------------
(* The gate.                                                               *)

\* The hook starts; the configuration and the previous report are loaded.
Start ==
    /\ pc = "idle"
    /\ pc' = "head"
    /\ pushed' = head
    /\ cfg' = config
    /\ prevReport' = reportFile
    /\ UNCHANGED <<devVars, fileVars, curHead, mergeBase, retry, mode, pending, report,
                   decision, history>>

ReadHead ==
    /\ pc = "head"
    /\ pc' = "mergebase"
    /\ curHead' = head
    /\ UNCHANGED <<devVars, fileVars, pushed, cfg, prevReport, mergeBase, retry, mode, pending,
                   report, decision, history>>

ReadMergeBase ==
    /\ pc = "mergebase"
    /\ pc' = "mode"
    /\ mergeBase' = MergeBase(base, head)
    /\ UNCHANGED <<devVars, fileVars, pushed, cfg, prevReport, curHead, retry, mode, pending,
                   report, decision, history>>

RetryModeWithoutFallback ==
    IF ~Eligible(stateFile) THEN "full"
    ELSE IF RetryCoverage(stateFile, prevReport) THEN "coverage"
    ELSE IF RetryResolution(stateFile, prevReport) THEN "resolution"
    ELSE "incremental"

RetryMode ==
    IF ~Eligible(stateFile) THEN "full"
    ELSE IF RetryCoverage(stateFile, prevReport) THEN "coverage"
    ELSE IF Debt(stateFile.report) THEN "fallback"
    ELSE IF RetryResolution(stateFile, prevReport) THEN "resolution"
    ELSE "incremental"

\* The state is loaded and decides what this run reviews.
ChooseMode ==
    /\ pc = "mode"
    /\ retry' = stateFile
    /\ mode' = RetryMode
    /\ IF RetryMode \in {"coverage", "resolution"}
       THEN pc' = "followup" /\ report' = prevReport
       ELSE pc' = "diff" /\ report' = None
    /\ pending' = (RetryMode = "coverage" /\ curHead # stateFile.head)
    /\ UNCHANGED <<devVars, fileVars, pushed, cfg, prevReport, curHead, mergeBase,
                   decision, history>>

\* The diff is read from the live refs ...
ReadDiff ==
    /\ pc = "diff"
    /\ pc' = "snapshot"
    /\ report' = LET from == IF mode = "incremental" THEN retry.head ELSE MergeBase(base, head)
                 IN  [target |-> IF mode = "incremental" THEN "range" ELSE "base",
                      from |-> from, head |-> head, config |-> cfg,
                      packs |-> Span(from, head), reviewed |-> {}, findings |-> {}]
    /\ UNCHANGED <<devVars, fileVars, pushed, cfg, prevReport, curHead, mergeBase, retry, mode,
                   pending, decision, history>>

\* ... and its snapshot from the refs as they are then.
CaptureSnapshot ==
    /\ pc = "snapshot"
    /\ pc' = "review"
    /\ report' = [report EXCEPT !.head = head,
                                !.from = IF report.target = "base" THEN MergeBase(base, head) ELSE @]
    /\ UNCHANGED <<devVars, fileVars, pushed, cfg, prevReport, curHead, mergeBase, retry, mode,
                   pending, decision, history>>

\* Reviewers complete any of the packs (budgets, provider failures) and report
\* findings in them.
RunReview ==
    /\ pc = "review"
    /\ pc' = IF mode = "refresh" THEN "validate" ELSE "followup"
    /\ \E done \in SUBSET report.packs : \E found \in SUBSET (done \cap Buggy) :
          report' = [report EXCEPT !.reviewed = done, !.findings = found]
    /\ UNCHANGED <<devVars, fileVars, pushed, cfg, prevReport, curHead, mergeBase, retry, mode,
                   pending, decision, history>>

\* The resumed run starts over with a full review.
Refresh == pc' = "diff" /\ mode' = "refresh" /\ report' = None /\ pending' = FALSE

\* One bounded pass over the missing packs.  A resumed report whose pass selects
\* nothing while newer commits wait is replaced by a full review.
FollowUp ==
    /\ pc = "followup"
    /\ \E selected \in SUBSET (report.packs \ report.reviewed) :
       \E done \in SUBSET selected :
       \E found \in SUBSET (done \cap Buggy) :
          /\ selected # {} => AutoFollowup
          /\ Cardinality(selected) <= MaxFollowup
          /\ IF pending /\ selected = {}
             THEN Refresh
             ELSE /\ pc' = "validate"
                  /\ report' = [report EXCEPT !.reviewed = @ \cup done,
                                              !.findings = @ \cup found]
                  /\ UNCHANGED <<mode, pending>>
    /\ UNCHANGED <<devVars, fileVars, pushed, cfg, prevReport, curHead, mergeBase, retry,
                   decision, history>>

\* A report that was not resumed must still describe the live refs; otherwise
\* the run ends in an error, which rejects the push.
Validate ==
    /\ pc = "validate"
    /\ IF mode \in {"coverage", "resolution"} \/ SnapshotIsLive(report)
       THEN pc' = "triage" ELSE pc' = "rejected"
    /\ UNCHANGED <<devVars, fileVars, runVars, decision, history>>

\* The decision on the report, less what the local triage suppresses.
LoadTriage ==
    /\ pc = "triage"
    /\ pc' = "resolve"
    /\ triage' = suppressions
    /\ current' = report.findings \ suppressions
    /\ hidden' = report.findings \cap suppressions
    /\ UNCHANGED <<devVars, fileVars, runVars, carried, asked, resolved, stale, history>>

\* Findings chosen under the call limit: more severe first, then those that an
\* earlier run deferred.
Before(c, d) ==
    \/ Severity[c.finding] < Severity[d.finding]
    \/ Severity[c.finding] = Severity[d.finding] /\ c.deferred /\ ~d.deferred

UnderLimit(needs) ==
    {s \in SUBSET needs :
        /\ Cardinality(s) = IF Cardinality(needs) <= MaxResolutions
                            THEN Cardinality(needs) ELSE MaxResolutions
        /\ \A c \in s, d \in needs \ s : ~Before(d, c)}

Keep(cs, flag) == {[finding |-> c.finding, deferred |-> flag] : c \in cs}

\* The findings of the saved state that this run answers for: a full review
\* replaces the state, except when it stands in for a lost coverage report.
CarriedOverDelta == IF mode \in {"incremental", "coverage", "resolution"} THEN retry.active ELSE {}
CarriedOver == IF mode = "full" THEN {} ELSE retry.active

NeedsResolutionAgain(cs) ==
    {c \in cs : /\ c.finding \notin current
                /\ PackOmits(c, report, current) \/ MayBeResolved(c, report)}

\* Carried findings that the resolver must look at, that keep the outcome they
\* have, and whose evidence is gone from HEAD.
NeedsResolution(cs) ==
    {c \in cs : /\ c.finding \notin current
                /\ mode = "resolution" => c.deferred
                /\ PackOmits(c, report, current) \/ MayBeResolved(c, report)}
KeepsOutcome(cs) ==
    {c \in cs : mode = "resolution" /\ ~c.deferred /\ c.finding \notin current}
IsStale(cs) ==
    {c \in cs \ (NeedsResolution(cs) \cup KeepsOutcome(cs)) :
        c.finding \notin current /\ \E d \in Anc[head] : c.finding \in Erases[d]}

UnresolvedAsDeferred(needs, ask, res, available) == Keep(needs \ res, available)

\* What the resolver leaves: asked without success, or not asked at the limit.
Unresolved(needs, ask, res, available) ==
    Keep(ask \ res, FALSE) \cup Keep(needs \ ask, available)

\* The resolver is asked about some; any answer but `resolved`, an error
\* included, keeps the finding.  Without a resolver (LLM disabled, truncated
\* diff evidence) every finding is kept as uncertain.
ResolveCarried ==
    /\ pc = "resolve"
    /\ pc' = "report"
    /\ LET cs    == CarriedOver
           needs == NeedsResolution(cs)
           gone  == IsStale(cs)
           same  == cs \ (needs \cup gone)
       IN  \E ask \in UnderLimit(needs), available \in BOOLEAN :
           \E res \in SUBSET (IF available THEN ask ELSE {}) :
             LET kept == KeepsOutcome(cs) \cup Keep(same \ KeepsOutcome(cs), FALSE)
                         \cup Unresolved(needs, ask, res, available)
             IN  /\ asked' = IF available THEN Found(ask) ELSE {}
                 /\ resolved' = Found(res)
                 /\ stale' = Found(gone)
                 /\ carried' = {c \in kept : c.finding \notin triage}
                 /\ hidden' = hidden \cup (Found(kept) \cap triage)
    /\ UNCHANGED <<devVars, fileVars, runVars, triage, current, history>>

WriteReport ==
    /\ pc = "report"
    /\ pc' = "savetriage"
    /\ reportFile' = report
    /\ UNCHANGED <<devVars, stateFile, runVars, decision, history>>

\* The triage state is written back as it was loaded.
WriteTriage ==
    /\ pc = "savetriage"
    /\ pc' = "state"
    /\ suppressions' = triage
    /\ UNCHANGED <<head, base, config, moves, manual, fileVars, runVars, decision, history>>

Active == carried \cup
          {[finding |-> f, deferred |-> FALSE] : f \in current \ Found(carried)}

\* A review is authoritative for the packs of its diff: what it does not report
\* again, and no attempt carries, is closed.
Closed ==
    resolved \cup
    (CASE mode \in {"coverage", "resolution"} -> {}
       [] mode = "full" -> report.packs
       [] OTHER -> report.packs \ Found(retry.active))

SavedHeadOfRun == curHead

\* A resumed report says nothing of the commits that came after it.
SavedHead == IF mode = "coverage" THEN retry.head ELSE curHead

\* The verdict: current and carried findings, coverage debt, and commits that are
\* newer than a resumed report.
Rejects == current # {} \/ carried # {} \/ Debt(report) \/ pending

SavedState ==
    [head |-> SavedHead, mergeBase |-> mergeBase, config |-> cfg, active |-> Active, report |-> report]

WriteState ==
    /\ pc = "state"
    /\ pc' = IF Rejects THEN "rejected" ELSE "passed"
    /\ stateFile' = SavedState
    /\ reviewed' = [reviewed EXCEPT ![cfg] = @ \cup report.reviewed]
    /\ open' = [open EXCEPT ![cfg] = (@ \ Closed) \cup report.findings \cup Found(Active)]
    /\ waived' = (waived \cup hidden) \ Found(Active)
    /\ dropped' = (dropped \cup stale) \ Found(Active)
    /\ attempted' = IF mode = "resolution" THEN attempted \cup asked ELSE asked
    /\ UNCHANGED <<devVars, reportFile, runVars, decision>>

\* The hook returns: exit 0 lets the push through, anything else rejects it.
Exit ==
    /\ pc \in {"passed", "rejected"}
    /\ ResetRun
    /\ UNCHANGED <<devVars, fileVars, history>>

--------------------------------------------------------------------------------
Developer ==
    \/ \E h \in Commits : MoveHead(h)
    \/ \E b \in Bases : MoveBase(b)
    \/ \E k \in Configs : ChangeConfig(k)
    \/ \E f \in Buggy : Suppress(f) \/ Unsuppress(f)
    \/ ManualLoad \/ ManualWrite
    \/ Crash

Gate ==
    \/ Start \/ ReadHead \/ ReadMergeBase \/ ChooseMode \/ ReadDiff \/ CaptureSnapshot
    \/ RunReview \/ FollowUp \/ Validate \/ LoadTriage \/ ResolveCarried
    \/ WriteReport \/ WriteTriage \/ WriteState \/ Exit

Next == Developer \/ Gate

Spec == Init /\ [][Next]_vars

--------------------------------------------------------------------------------
(* Properties.                                                             *)

DeveloperOK ==
    /\ head \in Commits /\ base \in Bases /\ config \in Configs
    /\ suppressions \subseteq Commits
    /\ moves \in 0..MaxMoves
    /\ manual \in Report \cup {None}

FilesOK ==
    /\ stateFile \in State \cup {None}
    /\ reportFile \in Report \cup {None}

\* With what a run has read by the time it is at pc.
RunOK ==
    /\ pc \in {"idle", "head", "mergebase", "mode", "diff", "snapshot", "review", "followup",
               "validate", "triage", "resolve", "report", "savetriage", "state",
               "passed", "rejected"}
    /\ pc # "idle" => pushed \in Commits /\ cfg \in Configs
    /\ prevReport \in Report \cup {None}
    /\ pc \notin {"idle", "head"} => curHead \in Commits
    /\ pc \notin {"idle", "head", "mergebase"} => mergeBase \in Commits
    /\ mode \in {"full", "fallback", "refresh", "incremental", "coverage", "resolution"}
    /\ retry \in State \cup {None}
    /\ mode # "full" => retry # None
    /\ pending \in BOOLEAN /\ (pending => mode = "coverage")
    /\ pc \notin {"idle", "head", "mergebase", "mode", "diff"} => report \in Report

DecisionOK ==
    /\ triage \subseteq Commits /\ current \subseteq Commits
    /\ carried \subseteq Carried
    /\ asked \subseteq Commits /\ resolved \subseteq Commits
    /\ stale \subseteq Commits /\ hidden \subseteq Commits

HistoryOK ==
    /\ reviewed \in [Configs -> SUBSET Commits] /\ open \in [Configs -> SUBSET Commits]
    /\ waived \subseteq Commits /\ dropped \subseteq Commits /\ attempted \subseteq Commits

TypeOK == DeveloperOK /\ FilesOK /\ RunOK /\ DecisionOK /\ HistoryOK

\* What the push of this run brings to the target base.
Pushed == Span(base, pushed)

\* No unreviewed push: when the hook lets a push through, a reviewer completed,
\* under the configuration of the run, every pack that the push brings to the
\* base, whichever chain of full, incremental and resumed runs did it.
NoUnreviewedPush == pc = "passed" => Pushed \subseteq reviewed[cfg]

\* No lost finding: when the hook lets a push through, every finding reported on
\* the pushed commits was disposed of: not reported again by a review of its
\* pack, resolved by the resolver, dropped as stale, or suppressed in a run.
NoLostFinding == pc = "passed" => open[cfg] \cap Pushed \subseteq waived \cup dropped

\* The saved state is a sound baseline for the next incremental run: all its
\* commits are reviewed, but for the packs of the debt that it records.
BaselineReviewed ==
    stateFile # None =>
        Span(stateFile.mergeBase, stateFile.head) \subseteq
            reviewed[stateFile.config] \cup (stateFile.report.packs \ stateFile.report.reviewed)

\* Coverage debt is paid by reviews: when a run saves a state without the debt
\* of the state it replaces, its report has the packs that both states span
\* reviewed, so that a run on the newer commits alone does not clear it.
DebtPaidByReview ==
    [][stateFile # None /\ stateFile' # None /\ Debt(stateFile.report) /\ ~Debt(stateFile'.report)
         => Span(stateFile'.mergeBase, stateFile'.head) \cap stateFile.report.packs
                \subseteq stateFile'.report.reviewed]_stateFile

\* The run is past the resolver and its outcome is not saved yet.
Resolved == pc \in {"report", "savetriage", "state"}

\* A run that resumes the resolution sends no finding to the provider that an
\* earlier run sent with the same evidence.
ResumeAsksOnce == Resolved /\ mode = "resolution" => asked \cap attempted = {}

\* Findings that the call limit left out get their turn if the push is retried,
\* unless a coverage debt stays.
HasDebt == stateFile # None /\ Debt(stateFile.report)
Deferred == stateFile # None /\ \E c \in stateFile.active : c.deferred
DeferralsDrain == <>[]~HasDebt => <>[]~Deferred

\* The developer retries a rejected push and a started run goes on.
FairSpec == Spec /\ WF_vars(Gate)
================================================================================
