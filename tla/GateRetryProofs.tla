---------------------------- MODULE GateRetryProofs ----------------------------
(* Theorems about the pre-push gate of GateRetry, for every history of      *)
(* commits, every policy and every bound.                                   *)
EXTENDS GateRetry, TLAPS

\* The merge base of two commits is a commit whose ancestors are the common ones.
LEMMA MergeBaseIsCommon ==
    ASSUME NEW b \in Commits, NEW h \in Commits
    PROVE  MergeBase(b, h) \in Commits /\ Anc[MergeBase(b, h)] = Anc[b] \cap Anc[h]
  BY HistoryAssumption DEF MergeBase

LEMMA SpanType ==
    ASSUME NEW c \in Commits, NEW d \in Commits
    PROVE  Span(c, d) \subseteq Commits
  BY HistoryAssumption DEF Span

LEMMA InitTyped == Init => TypeOK
<1> SUFFICES ASSUME Init PROVE TypeOK
  OBVIOUS
<1> USE DEF Init, IdleRun
<1>1. DeveloperOK
  BY PolicyAssumption DEF DeveloperOK
<1>2. FilesOK
  BY DEF FilesOK
<1>3. RunOK
  BY DEF RunOK
<1>4. DecisionOK
  BY DEF DecisionOK
<1>5. HistoryOK
  BY DEF HistoryOK
<1> QED
  BY <1>1, <1>2, <1>3, <1>4, <1>5 DEF TypeOK
LEMMA FoundType == ASSUME NEW cs \in SUBSET Carried PROVE Found(cs) \subseteq Commits
  BY DEF Found, Carried

LEMMA KeepType ==
    ASSUME NEW cs \in SUBSET Carried, NEW flag \in BOOLEAN PROVE Keep(cs, flag) \subseteq Carried
  BY DEF Keep, Carried

LEMMA ActiveType == DecisionOK => Active \subseteq Carried
<1> SUFFICES ASSUME DecisionOK, NEW c \in Active PROVE c \in Carried
  OBVIOUS
<1>1. CASE c \in carried
  BY <1>1 DEF DecisionOK
<1>2. CASE c \in {[finding |-> f, deferred |-> FALSE] : f \in current \ Found(carried)}
  <2>1. PICK f \in current : c = [finding |-> f, deferred |-> FALSE]
    BY <1>2
  <2>2. f \in Commits
    BY DEF DecisionOK
  <2> QED
    BY <2>1, <2>2 DEF Carried
<1> QED
  BY <1>1, <1>2 DEF Active

\* The outcome of the resolver consists of findings.
LEMMA ResolveTyped == TypeOK /\ ResolveCarried => DecisionOK'
<1> SUFFICES ASSUME TypeOK, ResolveCarried PROVE DecisionOK'
  OBVIOUS
<1> DEFINE cs == CarriedOver
           needs == NeedsResolution(cs)
           gone == IsStale(cs)
           same == cs \ (needs \cup gone)
<1>1. cs \subseteq Carried
  BY DEF ResolveCarried, TypeOK, RunOK, CarriedOver, State
<1>2. needs \subseteq cs /\ gone \subseteq cs /\ KeepsOutcome(cs) \subseteq cs
  BY DEF NeedsResolution, IsStale, KeepsOutcome
<1>3. PICK ask \in UnderLimit(needs), available \in BOOLEAN :
        \E res \in SUBSET (IF available THEN ask ELSE {}) :
           LET kept == KeepsOutcome(cs) \cup Keep(same \ KeepsOutcome(cs), FALSE)
                       \cup Unresolved(needs, ask, res, available)
           IN  /\ asked' = IF available THEN Found(ask) ELSE {}
               /\ resolved' = Found(res)
               /\ stale' = Found(gone)
               /\ carried' = {c \in kept : c.finding \notin triage}
               /\ hidden' = hidden \cup (Found(kept) \cap triage)
  BY DEF ResolveCarried
<1>4. PICK res \in SUBSET (IF available THEN ask ELSE {}) :
           LET kept == KeepsOutcome(cs) \cup Keep(same \ KeepsOutcome(cs), FALSE)
                       \cup Unresolved(needs, ask, res, available)
           IN  /\ asked' = IF available THEN Found(ask) ELSE {}
               /\ resolved' = Found(res)
               /\ stale' = Found(gone)
               /\ carried' = {c \in kept : c.finding \notin triage}
               /\ hidden' = hidden \cup (Found(kept) \cap triage)
  BY <1>3
<1> DEFINE kept == KeepsOutcome(cs) \cup Keep(same \ KeepsOutcome(cs), FALSE)
                   \cup Unresolved(needs, ask, res, available)
<1>5. ask \subseteq needs
  BY DEF UnderLimit
<1>6. kept \subseteq Carried
  <2>1. Keep(same \ KeepsOutcome(cs), FALSE) \subseteq Carried
    BY <1>1, KeepType
  <2>2. Unresolved(needs, ask, res, available) \subseteq Carried
    <3>1. Keep(ask \ res, FALSE) \subseteq Carried
      BY <1>1, <1>2, <1>5, KeepType
    <3>2. Keep(needs \ ask, available) \subseteq Carried
      BY <1>1, <1>2, KeepType
    <3> QED
      BY <3>1, <3>2 DEF Unresolved
  <2> QED
    BY <1>1, <1>2, <2>1, <2>2
<1>7. /\ Found(ask) \subseteq Commits /\ Found(res) \subseteq Commits
      /\ Found(gone) \subseteq Commits
  BY <1>1, <1>2, <1>5, FoundType
<1>8. triage \subseteq Commits /\ triage' = triage /\ current \subseteq Commits /\ current' = current
      /\ hidden \subseteq Commits
  BY DEF TypeOK, DecisionOK, ResolveCarried
<1>9. asked' \subseteq Commits /\ resolved' \subseteq Commits /\ stale' \subseteq Commits
  BY <1>4, <1>7
<1>10. carried' \subseteq Carried /\ hidden' \subseteq Commits
  BY <1>4, <1>6, <1>8
<1> QED
  BY <1>8, <1>9, <1>10 DEF DecisionOK

\* What a run saves is a state, and a history.
LEMMA SaveTyped == TypeOK /\ WriteState => FilesOK' /\ HistoryOK'
<1> SUFFICES ASSUME TypeOK, WriteState PROVE FilesOK' /\ HistoryOK'
  OBVIOUS
<1>1. /\ cfg \in Configs /\ report \in Report /\ mergeBase \in Commits
      /\ SavedHead \in Commits /\ Active \subseteq Carried
  BY ActiveType DEF TypeOK, RunOK, WriteState, SavedHead, State
<1>2. Found(Active) \subseteq Commits
  BY <1>1, FoundType
<1>3. FilesOK'
  BY <1>1 DEF TypeOK, FilesOK, WriteState, SavedState, State
<1>4. report.reviewed \subseteq Commits /\ report.findings \subseteq Commits
  BY <1>1 DEF Report
<1>5. reviewed' \in [Configs -> SUBSET Commits] /\ open' \in [Configs -> SUBSET Commits]
  BY <1>1, <1>2, <1>4 DEF TypeOK, HistoryOK, WriteState
<1>6. waived' \subseteq Commits /\ dropped' \subseteq Commits /\ attempted' \subseteq Commits
  BY DEF TypeOK, HistoryOK, DecisionOK, WriteState
<1> QED
  BY <1>3, <1>5, <1>6 DEF HistoryOK

\* Every step of the developer and of the gate keeps the type invariant.
LEMMA NextTyped == TypeOK /\ [Next]_vars => TypeOK'
<1> SUFFICES ASSUME TypeOK, [Next]_vars PROVE TypeOK'
  OBVIOUS
<1> USE DEF TypeOK
<1>f. /\ UNCHANGED devVars => DeveloperOK'
      /\ UNCHANGED fileVars => FilesOK'
      /\ UNCHANGED <<pc, runVars>> => RunOK'
      /\ UNCHANGED decision => DecisionOK'
      /\ UNCHANGED history => HistoryOK'
  <2>1. UNCHANGED devVars => DeveloperOK'
    BY DEF devVars, DeveloperOK
  <2>2. UNCHANGED fileVars => FilesOK'
    BY DEF fileVars, FilesOK
  <2>3. UNCHANGED <<pc, runVars>> => RunOK'
    BY DEF runVars, RunOK
  <2>4. UNCHANGED decision => DecisionOK'
    BY DEF decision, DecisionOK
  <2>5. UNCHANGED history => HistoryOK'
    BY DEF history, HistoryOK
  <2> QED
    BY <2>1, <2>2, <2>3, <2>4, <2>5
<1>1. ASSUME NEW h \in Commits, MoveHead(h) PROVE TypeOK'
  <2>1. DeveloperOK'
    BY <1>1, PolicyAssumption DEF MoveHead, Move, DeveloperOK, FilesOK
  <2> QED
    BY <1>1, <1>f, <2>1 DEF MoveHead
<1>2. ASSUME NEW b \in Bases, MoveBase(b) PROVE TypeOK'
  <2>1. DeveloperOK'
    BY <1>2, PolicyAssumption DEF MoveBase, Move, DeveloperOK, FilesOK
  <2> QED
    BY <1>2, <1>f, <2>1 DEF MoveBase
<1>3. ASSUME NEW k \in Configs, ChangeConfig(k) PROVE TypeOK'
  <2>1. DeveloperOK'
    BY <1>3, PolicyAssumption DEF ChangeConfig, Move, DeveloperOK, FilesOK
  <2> QED
    BY <1>3, <1>f, <2>1 DEF ChangeConfig
<1>4. ASSUME NEW f \in Buggy, Suppress(f) \/ Unsuppress(f) PROVE TypeOK'
  <2>1. DeveloperOK'
    BY <1>4, PolicyAssumption DEF Suppress, Unsuppress, Move, DeveloperOK, FilesOK
  <2> QED
    BY <1>4, <1>f, <2>1 DEF Suppress, Unsuppress
<1>5. CASE ManualLoad
  <2>1. DeveloperOK'
    BY <1>5, PolicyAssumption DEF ManualLoad, Move, DeveloperOK, FilesOK
  <2> QED
    BY <1>5, <1>f, <2>1 DEF ManualLoad
<1>6. CASE ManualWrite
  <2>1. DeveloperOK'
    BY <1>6 DEF ManualWrite, DeveloperOK
  <2>2. reportFile' \in Report \cup {None}
    <3>1. manual \in Report
      BY <1>6 DEF ManualWrite, DeveloperOK
    <3>2. ASSUME NEW done \in SUBSET (manual.packs \ manual.reviewed),
                 NEW found \in SUBSET (done \cap Buggy)
          PROVE  [manual EXCEPT !.reviewed = @ \cup done, !.findings = @ \cup found] \in Report
      BY <3>1, PolicyAssumption DEF Report
    <3>3. reportFile \in Report \cup {None}
      BY DEF FilesOK
    <3> QED
      BY <1>6, <3>2, <3>3 DEF ManualWrite
  <2>3. FilesOK'
    BY <1>6, <2>2 DEF ManualWrite, FilesOK
  <2> QED
    BY <1>6, <1>f, <2>1, <2>3 DEF ManualWrite
<1>7. CASE Crash
  <2>1. DeveloperOK' /\ FilesOK'
    BY <1>7, PolicyAssumption DEF Crash, Move, DeveloperOK, FilesOK
  <2>2. RunOK' /\ DecisionOK'
    BY <1>7 DEF Crash, ResetRun, RunOK, DecisionOK
  <2> QED
    BY <1>7, <1>f, <2>1, <2>2 DEF Crash
<1>8. CASE Start
  <2>1. RunOK'
    BY <1>8 DEF Start, RunOK, DeveloperOK, FilesOK
  <2> QED
    BY <1>8, <1>f, <2>1 DEF Start
<1>9. CASE ReadHead
  <2>1. RunOK'
    BY <1>9 DEF ReadHead, RunOK, DeveloperOK
  <2> QED
    BY <1>9, <1>f, <2>1 DEF ReadHead
<1>10. CASE ReadMergeBase
  <2>1. RunOK'
    BY <1>10, MergeBaseIsCommon, HistoryAssumption DEF ReadMergeBase, RunOK, DeveloperOK
  <2> QED
    BY <1>10, <1>f, <2>1 DEF ReadMergeBase
<1>11. CASE ChooseMode
  <2>1. /\ stateFile \in State \cup {None}
        /\ RetryMode \in {"full", "fallback", "incremental", "coverage", "resolution"}
        /\ RetryMode # "full" => stateFile # None
        /\ RetryMode \in {"coverage", "resolution"} => prevReport # None
    BY DEF RetryMode, RetryCoverage, RetryResolution, Eligible, FilesOK
  <2>2. RunOK'
    BY <1>11, <2>1 DEF ChooseMode, RunOK
  <2> QED
    BY <1>11, <1>f, <2>2 DEF ChooseMode
<1>12. CASE ReadDiff
  <2>1. report' \in Report
    <3>1. (IF mode = "incremental" THEN retry.head ELSE MergeBase(base, head)) \in Commits
      BY MergeBaseIsCommon, HistoryAssumption DEF DeveloperOK, RunOK, State
    <3> QED
      BY <1>12, <3>1, SpanType DEF ReadDiff, DeveloperOK, RunOK, Report
  <2>2. RunOK'
    BY <1>12, <2>1 DEF ReadDiff, RunOK
  <2> QED
    BY <1>12, <1>f, <2>2 DEF ReadDiff
<1>13. CASE CaptureSnapshot
  <2>1. report' \in Report
    BY <1>13, MergeBaseIsCommon, HistoryAssumption
       DEF CaptureSnapshot, DeveloperOK, RunOK, Report
  <2>2. RunOK'
    BY <1>13, <2>1 DEF CaptureSnapshot, RunOK
  <2> QED
    BY <1>13, <1>f, <2>2 DEF CaptureSnapshot
<1>14. CASE RunReview
  <2>1. report' \in Report
    BY <1>14, PolicyAssumption DEF RunReview, RunOK, Report
  <2>2. RunOK'
    BY <1>14, <2>1 DEF RunReview, RunOK
  <2> QED
    BY <1>14, <1>f, <2>2 DEF RunReview
<1>15. CASE FollowUp
  <2>1. report \in Report
    BY <1>15 DEF FollowUp, RunOK
  <2>2. ASSUME NEW done \in SUBSET (report.packs \ report.reviewed),
               NEW found \in SUBSET (done \cap Buggy)
        PROVE  [report EXCEPT !.reviewed = @ \cup done, !.findings = @ \cup found] \in Report
    BY <2>1, PolicyAssumption DEF Report
  <2>3. \/ pending /\ pc' = "diff" /\ mode' = "refresh" /\ pending' = FALSE
        \/ pc' = "validate" /\ report' \in Report /\ UNCHANGED <<mode, pending>>
    <3>1. PICK selected \in SUBSET (report.packs \ report.reviewed) :
            \E done \in SUBSET selected : \E found \in SUBSET (done \cap Buggy) :
               IF pending /\ selected = {}
               THEN pc' = "diff" /\ mode' = "refresh" /\ pending' = FALSE
               ELSE /\ pc' = "validate"
                    /\ report' = [report EXCEPT !.reviewed = @ \cup done,
                                                !.findings = @ \cup found]
                    /\ UNCHANGED <<mode, pending>>
      BY <1>15 DEF FollowUp, Refresh
    <3>2. CASE pending /\ selected = {}
      BY <3>1, <3>2
    <3>3. CASE ~(pending /\ selected = {})
      <4>1. PICK done \in SUBSET selected : \E found \in SUBSET (done \cap Buggy) :
               /\ pc' = "validate"
               /\ report' = [report EXCEPT !.reviewed = @ \cup done, !.findings = @ \cup found]
               /\ UNCHANGED <<mode, pending>>
        BY <3>1, <3>3
      <4>2. done \in SUBSET (report.packs \ report.reviewed)
        OBVIOUS
      <4> QED
        BY <2>2, <4>1, <4>2
    <3> QED
      BY <3>2, <3>3
  <2>4. RunOK'
    <3>1. CASE pending /\ pc' = "diff" /\ mode' = "refresh" /\ pending' = FALSE
      BY <1>15, <3>1 DEF FollowUp, RunOK
    <3>2. CASE pc' = "validate" /\ report' \in Report /\ UNCHANGED <<mode, pending>>
      BY <1>15, <3>2 DEF FollowUp, RunOK
    <3> QED
      BY <2>3, <3>1, <3>2
  <2> QED
    BY <1>15, <1>f, <2>4 DEF FollowUp
<1>16. CASE Validate
  <2>1. RunOK'
    BY <1>16 DEF Validate, RunOK, runVars
  <2> QED
    BY <1>16, <1>f, <2>1 DEF Validate
<1>17. CASE LoadTriage
  <2>1. RunOK'
    BY <1>17 DEF LoadTriage, RunOK, runVars
  <2>2. DecisionOK'
    BY <1>17 DEF LoadTriage, RunOK, DecisionOK, DeveloperOK, Report
  <2> QED
    BY <1>17, <1>f, <2>1, <2>2 DEF LoadTriage
<1>18. CASE ResolveCarried
  <2>1. RunOK'
    BY <1>18 DEF ResolveCarried, RunOK, runVars
  <2>2. DecisionOK'
    BY <1>18, ResolveTyped DEF ResolveCarried
  <2> QED
    BY <1>18, <1>f, <2>1, <2>2 DEF ResolveCarried
<1>19. CASE WriteReport
  <2>1. RunOK' /\ FilesOK'
    BY <1>19 DEF WriteReport, RunOK, FilesOK, runVars
  <2> QED
    BY <1>19, <1>f, <2>1 DEF WriteReport
<1>20. CASE WriteTriage
  <2>1. RunOK' /\ DeveloperOK'
    BY <1>20 DEF WriteTriage, RunOK, DeveloperOK, DecisionOK, runVars
  <2> QED
    BY <1>20, <1>f, <2>1 DEF WriteTriage
<1>21. CASE WriteState
  <2>1. RunOK'
    BY <1>21 DEF WriteState, RunOK, runVars
  <2>2. FilesOK' /\ HistoryOK'
    BY <1>21, SaveTyped
  <2> QED
    BY <1>21, <1>f, <2>1, <2>2 DEF WriteState
<1>22. CASE Exit
  <2>1. RunOK' /\ DecisionOK'
    BY <1>22 DEF Exit, ResetRun, RunOK, DecisionOK
  <2> QED
    BY <1>22, <1>f, <2>1 DEF Exit
<1>23. CASE UNCHANGED vars
  BY <1>23, <1>f DEF vars
<1> QED
  BY <1>1, <1>2, <1>3, <1>4, <1>5, <1>6, <1>7, <1>8, <1>9, <1>10, <1>11, <1>12, <1>13, <1>14, <1>15, <1>16, <1>17, <1>18, <1>19, <1>20, <1>21, <1>22, <1>23 DEF Next, Developer, Gate

\* The type invariant, with what a run has read by each of its steps.
THEOREM TypeCorrect == Spec => []TypeOK
  BY InitTyped, NextTyped, PTL DEF Spec
--------------------------------------------------------------------------------
(* No unreviewed push.  While no ref races with a run, the following is         *)
(* inductive: the saved state is a baseline, and the run in progress covers     *)
(* what it will save as the next one.                                           *)

\* What a run knows of the refs: the base stays and HEAD only moves on, so that
\* what the run has read bounds what the push brings.
RefsHeld ==
    /\ pc # "idle" => pushed \in Anc[head]
    /\ pc \notin {"idle", "head"} => pushed \in Anc[curHead] /\ curHead \in Anc[head]
    /\ pc \notin {"idle", "head", "mergebase"} =>
          Anc[base] \cap Anc[curHead] \subseteq Anc[mergeBase] /\ Anc[mergeBase] \subseteq Anc[base]

\* What the choice of the mode says of the state that the run started from.
ModeHeld ==
    /\ pc \in {"idle", "head", "mergebase", "mode"} => mode = "full"
    /\ pc \in {"diff", "snapshot", "review"} => mode \notin {"coverage", "resolution"}
    /\ mode # "full" /\ pc \notin {"passed", "rejected"} => retry = stateFile
    /\ mode # "full" => Eligible(retry)
    /\ mode = "incremental" => ~Debt(retry.report)
    /\ mode = "resolution" => curHead = retry.head /\ ~Debt(retry.report)
    /\ mode = "coverage" => (pending <=> curHead # retry.head)

\* The report of the run reviews the diff that the mode asks for.
FromBase == mode \in {"full", "fallback", "refresh"}
ReportHeld ==
    /\ mode \in {"coverage", "resolution"} => report.packs = retry.report.packs
    /\ pc \notin {"idle", "head", "mergebase", "mode", "diff"} =>
          /\ FromBase => report.target = "base"
          /\ mode = "incremental" => report.target = "range" /\ report.from = retry.head

\* The report is final, and what the run will save is a baseline.
Decided == pc \in {"triage", "resolve", "report", "savetriage", "state"}
RunCovers ==
    /\ Decided => Span(mergeBase, SavedHead) \subseteq reviewed[cfg] \cup report.packs
    /\ Decided /\ FromBase => Span(mergeBase, curHead) \subseteq report.packs
    /\ pc = "passed" => Span(mergeBase, curHead) \subseteq reviewed[cfg]

ReviewInv == RefsHeld /\ ModeHeld /\ ReportHeld /\ RunCovers /\ BaselineReviewed

LEMMA Ancestry ==
    ASSUME NEW c \in Commits
    PROVE  /\ c \in Anc[c] /\ Anc[c] \subseteq Commits
           /\ \A d \in Anc[c] : d \in Commits /\ Anc[d] \subseteq Anc[c]
  BY HistoryAssumption

\* A validated report reviews all that the run will save.
LEMMA ValidatedCovers ==
    /\ TypeOK /\ ReviewInv /\ pc = "validate"
    /\ mode \in {"coverage", "resolution"} \/ SnapshotIsLive(report)
    => /\ Span(mergeBase, SavedHead) \subseteq reviewed[cfg] \cup report.packs
       /\ FromBase => Span(mergeBase, curHead) \subseteq report.packs
<1> SUFFICES ASSUME TypeOK, ReviewInv, pc = "validate",
                    mode \in {"coverage", "resolution"} \/ SnapshotIsLive(report)
             PROVE  /\ Span(mergeBase, SavedHead) \subseteq reviewed[cfg] \cup report.packs
                    /\ FromBase => Span(mergeBase, curHead) \subseteq report.packs
  OBVIOUS
<1>1. /\ report \in Report /\ mergeBase \in Commits /\ curHead \in Commits /\ head \in Commits
      /\ base \in Commits /\ cfg \in Configs
      /\ mode # "full" => retry \in State /\ retry = stateFile /\ Eligible(retry)
  BY HistoryAssumption DEF TypeOK, DeveloperOK, RunOK, ReviewInv, ModeHeld
<1>2. /\ Anc[base] \cap Anc[curHead] \subseteq Anc[mergeBase] /\ Anc[mergeBase] \subseteq Anc[base]
      /\ Anc[curHead] \subseteq Anc[head]
  BY <1>1, Ancestry DEF ReviewInv, RefsHeld
<1>3. mode # "full" => Span(mergeBase, retry.head) \subseteq
                         reviewed[cfg] \cup (retry.report.packs \ retry.report.reviewed)
  BY <1>1, NoneAssumption DEF Eligible, ReviewInv, BaselineReviewed
<1>4. CASE FromBase
  <2>1. /\ report.packs = Span(report.from, head) /\ report.from = MergeBase(base, head)
        /\ SavedHead = curHead
    BY <1>4 DEF FromBase, SnapshotIsLive, ReviewInv, ReportHeld, SavedHead
  <2>2. Span(mergeBase, curHead) \subseteq report.packs
    BY <1>1, <1>2, <2>1, MergeBaseIsCommon DEF Span
  <2> QED
    BY <2>1, <2>2
<1>5. CASE mode = "incremental"
  <2>1. /\ report.packs = Span(retry.head, head) /\ SavedHead = curHead
        /\ retry.report.packs \ retry.report.reviewed = {}
    BY <1>5 DEF SnapshotIsLive, ReviewInv, ReportHeld, ModeHeld, SavedHead, Debt
  <2>2. Span(mergeBase, curHead) \subseteq Span(mergeBase, retry.head) \cup Span(retry.head, head)
    BY <1>2 DEF Span
  <2> QED
    BY <1>3, <1>5, <2>1, <2>2 DEF FromBase
<1>6. CASE mode \in {"coverage", "resolution"}
  <2>1. report.packs = retry.report.packs /\ SavedHead = retry.head
    BY <1>6 DEF ReviewInv, ReportHeld, ModeHeld, SavedHead
  <2> QED
    BY <1>3, <1>6, <2>1 DEF FromBase
<1> QED
  BY <1>4, <1>5, <1>6 DEF TypeOK, RunOK, FromBase

LEMMA InitReviewed == Init => ReviewInv
  BY DEF Init, IdleRun, ReviewInv, RefsHeld, ModeHeld, ReportHeld, RunCovers, Decided, BaselineReviewed

LEMMA NextReviewed == ~RefRaces /\ TypeOK /\ ReviewInv /\ [Next]_vars => ReviewInv'
<1> SUFFICES ASSUME ~RefRaces, TypeOK, ReviewInv, [Next]_vars PROVE ReviewInv'
  OBVIOUS
<1> USE DEF ReviewInv
<1>f. /\ UNCHANGED <<pc, runVars, head, base>> => RefsHeld'
      /\ UNCHANGED <<pc, runVars, stateFile>> => ModeHeld'
      /\ UNCHANGED <<pc, runVars>> => ReportHeld'
      /\ UNCHANGED <<pc, runVars, history>> => RunCovers'
      /\ UNCHANGED <<stateFile, history>> => BaselineReviewed'
  <2>1. UNCHANGED <<pc, runVars, head, base>> => RefsHeld'
    BY DEF runVars, RefsHeld
  <2>2. UNCHANGED <<pc, runVars, stateFile>> => ModeHeld'
    BY DEF runVars, ModeHeld, Eligible
  <2>3. UNCHANGED <<pc, runVars>> => ReportHeld'
    BY DEF runVars, ReportHeld, FromBase
  <2>4. UNCHANGED <<pc, runVars, history>> => RunCovers'
    BY DEF runVars, history, RunCovers, Decided, FromBase, SavedHead
  <2>5. UNCHANGED <<stateFile, history>> => BaselineReviewed'
    BY DEF history, BaselineReviewed
  <2> QED
    BY <2>1, <2>2, <2>3, <2>4, <2>5
<1>g. UNCHANGED devVars => UNCHANGED <<head, base>>
  BY DEF devVars
<1>h. UNCHANGED fileVars => UNCHANGED stateFile
  BY DEF fileVars
<1>1. ASSUME NEW h \in Commits, MoveHead(h) PROVE ReviewInv'
  <2>1. /\ pc # "idle" => head \in Anc[head']
        /\ UNCHANGED <<base, pc, pushed, curHead, mergeBase>> /\ head' \in Commits
    BY <1>1 DEF MoveHead, runVars
  <2>2. RefsHeld'
    BY <2>1, Ancestry DEF RefsHeld
  <2> QED
    BY <1>1, <1>f, <1>h, <2>2 DEF MoveHead
<1>2. ASSUME NEW b \in Bases, MoveBase(b) PROVE ReviewInv'
  <2>1. RefsHeld'
    BY <1>2 DEF MoveBase, RefsHeld
  <2> QED
    BY <1>2, <1>f, <1>h, <2>1 DEF MoveBase
<1>3. ASSUME NEW k \in Configs, ChangeConfig(k) PROVE ReviewInv'
  BY <1>3, <1>f, <1>h DEF ChangeConfig
<1>4. ASSUME NEW f \in Buggy, Suppress(f) \/ Unsuppress(f) PROVE ReviewInv'
  BY <1>4, <1>f, <1>h DEF Suppress, Unsuppress
<1>5. CASE ManualLoad
  BY <1>5, <1>f, <1>h DEF ManualLoad
<1>6. CASE ManualWrite
  BY <1>6, <1>f DEF ManualWrite
<1>7. CASE Crash
  <2>1. RefsHeld' /\ ModeHeld' /\ ReportHeld' /\ RunCovers'
    BY <1>7 DEF Crash, ResetRun, RefsHeld, ModeHeld, ReportHeld, RunCovers, Decided
  <2>2. BaselineReviewed'
    BY <1>7 DEF Crash, BaselineReviewed, history
  <2> QED
    BY <2>1, <2>2
<1>8. CASE Start
  <2>1. RefsHeld'
    BY <1>8, Ancestry DEF Start, RefsHeld, devVars, TypeOK, DeveloperOK
  <2>2. ModeHeld' /\ ReportHeld' /\ RunCovers'
    BY <1>8 DEF Start, ModeHeld, ReportHeld, RunCovers, Decided
  <2> QED
    BY <1>8, <1>f, <1>h, <2>1, <2>2 DEF Start
<1>9. CASE ReadHead
  <2>1. RefsHeld'
    BY <1>9, Ancestry DEF ReadHead, RefsHeld, devVars, TypeOK, DeveloperOK
  <2>2. ModeHeld' /\ ReportHeld' /\ RunCovers'
    BY <1>9 DEF ReadHead, ModeHeld, ReportHeld, RunCovers, Decided
  <2> QED
    BY <1>9, <1>f, <1>h, <2>1, <2>2 DEF ReadHead
<1>10. CASE ReadMergeBase
  <2>1. base \in Commits /\ head \in Commits /\ curHead \in Anc[head] /\ pushed \in Anc[curHead]
    BY <1>10, HistoryAssumption DEF ReadMergeBase, RefsHeld, TypeOK, DeveloperOK
  <2>2. RefsHeld'
    BY <1>10, <2>1, MergeBaseIsCommon, Ancestry DEF ReadMergeBase, RefsHeld, devVars
  <2>3. ModeHeld' /\ ReportHeld' /\ RunCovers'
    BY <1>10 DEF ReadMergeBase, ModeHeld, ReportHeld, RunCovers, Decided
  <2> QED
    BY <1>10, <1>f, <1>h, <2>2, <2>3 DEF ReadMergeBase
<1>11. CASE ChooseMode
  <2>1. RefsHeld'
    BY <1>11 DEF ChooseMode, RefsHeld, devVars
  <2>2. /\ RetryMode # "full" => Eligible(stateFile)
        /\ RetryMode = "incremental" => ~Debt(stateFile.report)
        /\ RetryMode = "resolution" => /\ curHead = stateFile.head /\ ~Debt(stateFile.report)
                                       /\ prevReport.packs = stateFile.report.packs
        /\ RetryMode = "coverage" => prevReport.packs = stateFile.report.packs
    BY DEF RetryMode, RetryCoverage, RetryResolution
  <2>3. /\ retry' = stateFile /\ stateFile' = stateFile /\ mode' = RetryMode
        /\ mergeBase' = mergeBase /\ cfg' = cfg /\ curHead' = curHead
        /\ pending' = (RetryMode = "coverage" /\ curHead # stateFile.head)
        /\ RetryMode \in {"coverage", "resolution"} => pc' = "followup" /\ report' = prevReport
        /\ RetryMode \notin {"coverage", "resolution"} => pc' = "diff"
    BY <1>11, <1>h DEF ChooseMode
  <2>4. Eligible(stateFile) => Eligible(retry)'
    BY <2>3 DEF Eligible
  <2>5. ModeHeld'
    BY <2>2, <2>3, <2>4 DEF ModeHeld
  <2>6. ReportHeld' /\ RunCovers'
    BY <2>2, <2>3 DEF ReportHeld, RunCovers, Decided, FromBase
  <2> QED
    BY <1>11, <1>f, <1>h, <2>1, <2>5, <2>6 DEF ChooseMode
<1>12. CASE ReadDiff
  <2>1. RefsHeld' /\ ModeHeld'
    BY <1>12, <1>h DEF ReadDiff, RefsHeld, devVars, ModeHeld, Eligible
  <2>2. ReportHeld' /\ RunCovers'
    BY <1>12 DEF ReadDiff, ReportHeld, RunCovers, Decided, FromBase, ModeHeld
  <2> QED
    BY <1>12, <1>f, <1>h, <2>1, <2>2 DEF ReadDiff
<1>13. CASE CaptureSnapshot
  <2>1. RefsHeld' /\ ModeHeld'
    BY <1>13, <1>h DEF CaptureSnapshot, RefsHeld, devVars, ModeHeld, Eligible
  <2>2. ReportHeld' /\ RunCovers'
    BY <1>13 DEF CaptureSnapshot, ReportHeld, RunCovers, Decided, FromBase, TypeOK, RunOK, Report
  <2> QED
    BY <1>13, <1>f, <1>h, <2>1, <2>2 DEF CaptureSnapshot
<1>14. CASE RunReview
  <2>1. RefsHeld' /\ ModeHeld'
    BY <1>14, <1>h DEF RunReview, RefsHeld, devVars, ModeHeld, Eligible
  <2>2. ReportHeld' /\ RunCovers'
    BY <1>14 DEF RunReview, ReportHeld, RunCovers, Decided, FromBase, TypeOK, RunOK, Report
  <2> QED
    BY <1>14, <1>f, <1>h, <2>1, <2>2 DEF RunReview
<1>15. CASE FollowUp
  <2>1. /\ UNCHANGED <<head, base, pushed, curHead, mergeBase, cfg, retry, stateFile>>
        /\ pc = "followup" /\ pc' \in {"diff", "validate"}
    BY <1>15, <1>g, <1>h DEF FollowUp, Refresh
  <2>2. RefsHeld'
    BY <2>1 DEF RefsHeld
  <2>3. report \in Report
    BY <2>1 DEF TypeOK, RunOK
  <2>4. \/ pc' = "diff" /\ mode' = "refresh" /\ mode # "full"
        \/ /\ pc' = "validate" /\ UNCHANGED <<mode, pending>>
           /\ report'.packs = report.packs /\ report'.target = report.target
           /\ report'.from = report.from
    BY <1>15, <2>3 DEF FollowUp, Refresh, Report, TypeOK, RunOK
  <2>5. ModeHeld' /\ ReportHeld' /\ RunCovers'
    <3>1. CASE pc' = "diff" /\ mode' = "refresh" /\ mode # "full"
      BY <2>1, <3>1 DEF ModeHeld, ReportHeld, RunCovers, Decided, FromBase, Eligible
    <3>2. CASE /\ pc' = "validate" /\ UNCHANGED <<mode, pending>>
               /\ report'.packs = report.packs /\ report'.target = report.target
               /\ report'.from = report.from
      BY <2>1, <3>2 DEF ModeHeld, ReportHeld, RunCovers, Decided, FromBase, Eligible
    <3> QED
      BY <2>4, <3>1, <3>2
  <2> QED
    BY <1>15, <1>f, <1>h, <2>2, <2>5 DEF FollowUp
<1>16. CASE Validate
  <2>1. RefsHeld' /\ ModeHeld' /\ ReportHeld'
    BY <1>16, <1>h DEF Validate, RefsHeld, devVars, runVars, ModeHeld, Eligible, ReportHeld, FromBase
  <2>2. /\ pc = "validate" /\ pc' \in {"triage", "rejected"} /\ UNCHANGED <<runVars, history>>
        /\ pc' = "triage" => mode \in {"coverage", "resolution"} \/ SnapshotIsLive(report)
    BY <1>16 DEF Validate
  <2>3. RunCovers'
    BY <2>2, ValidatedCovers DEF RunCovers, Decided, FromBase, SavedHead, runVars, history
  <2> QED
    BY <1>16, <1>f, <1>h, <2>1, <2>3 DEF Validate
<1>17. CASE LoadTriage
  <2>1. RefsHeld' /\ ModeHeld' /\ ReportHeld' /\ RunCovers'
    BY <1>17, <1>h DEF LoadTriage, RefsHeld, devVars, runVars, history, ModeHeld, Eligible, ReportHeld,
                       RunCovers, Decided, FromBase, SavedHead
  <2> QED
    BY <1>17, <1>f, <1>h, <2>1 DEF LoadTriage
<1>18. CASE ResolveCarried
  <2>1. RefsHeld' /\ ModeHeld' /\ ReportHeld' /\ RunCovers'
    BY <1>18, <1>h DEF ResolveCarried, RefsHeld, devVars, runVars, history, ModeHeld, Eligible,
                       ReportHeld, RunCovers, Decided, FromBase, SavedHead
  <2> QED
    BY <1>18, <1>f, <1>h, <2>1 DEF ResolveCarried
<1>19. CASE WriteReport
  <2>1. RefsHeld' /\ ModeHeld' /\ ReportHeld' /\ RunCovers'
    BY <1>19 DEF WriteReport, RefsHeld, devVars, runVars, history, ModeHeld, Eligible, ReportHeld,
                 RunCovers, Decided, FromBase, SavedHead
  <2> QED
    BY <1>19, <1>f, <2>1 DEF WriteReport
<1>20. CASE WriteTriage
  <2>1. RefsHeld' /\ ModeHeld' /\ ReportHeld' /\ RunCovers'
    BY <1>20, <1>h DEF WriteTriage, RefsHeld, runVars, history, ModeHeld, Eligible, ReportHeld,
                       RunCovers, Decided, FromBase, SavedHead
  <2> QED
    BY <1>20, <1>f, <1>h, <2>1 DEF WriteTriage
<1>21. CASE WriteState
  <2>1. RefsHeld' /\ ReportHeld'
    BY <1>21 DEF WriteState, RefsHeld, devVars, runVars, ReportHeld, FromBase
  <2>2. ModeHeld'
    BY <1>21 DEF WriteState, runVars, ModeHeld, Eligible
  <2>3. /\ cfg \in Configs /\ report \in Report /\ pc = "state" /\ UNCHANGED runVars
        /\ reviewed \in [Configs -> SUBSET Commits]
        /\ reviewed' = [reviewed EXCEPT ![cfg] = @ \cup report.reviewed]
        /\ stateFile' = [head |-> SavedHead, mergeBase |-> mergeBase, config |-> cfg,
                         active |-> Active, report |-> report]
    BY <1>21 DEF WriteState, SavedState, TypeOK, RunOK, HistoryOK
  <2>4. reviewed'[cfg] = reviewed[cfg] \cup report.reviewed
    BY <2>3
  <2>5. Span(mergeBase, SavedHead) \subseteq reviewed[cfg] \cup report.packs
    BY <2>3 DEF RunCovers, Decided
  <2>6. BaselineReviewed'
    BY <2>3, <2>4, <2>5 DEF BaselineReviewed, Span
  <2>7. pc' = "passed" => Span(mergeBase, curHead) \subseteq reviewed'[cfg]
    <3> SUFFICES ASSUME pc' = "passed" PROVE Span(mergeBase, curHead) \subseteq reviewed'[cfg]
      OBVIOUS
    <3>1. ~Debt(report) /\ ~pending
      BY <1>21 DEF WriteState, Rejects
    <3>2. SavedHead = curHead
      BY <3>1 DEF SavedHead, ModeHeld
    <3> QED
      BY <2>4, <2>5, <3>1, <3>2 DEF Debt
  <2>8. RunCovers'
    BY <1>21, <2>3, <2>7 DEF WriteState, RunCovers, Decided, Span, runVars
  <2> QED
    BY <2>1, <2>2, <2>6, <2>8
<1>22. CASE Exit
  <2>1. RefsHeld' /\ ModeHeld' /\ ReportHeld' /\ RunCovers'
    BY <1>22 DEF Exit, ResetRun, RefsHeld, ModeHeld, ReportHeld, RunCovers, Decided
  <2> QED
    BY <1>22, <1>f, <1>h, <2>1 DEF Exit
<1>23. CASE UNCHANGED vars
  BY <1>23, <1>f, <1>g, <1>h DEF vars
<1> QED
  BY <1>1, <1>2, <1>3, <1>4, <1>5, <1>6, <1>7, <1>8, <1>9, <1>10, <1>11, <1>12, <1>13, <1>14, <1>15,
     <1>16, <1>17, <1>18, <1>19, <1>20, <1>21, <1>22, <1>23 DEF Next, Developer, Gate

\* What the push of a run brings lies in the span that the run saves.
LEMMA PassSpan == TypeOK /\ ReviewInv /\ pc = "passed" => Span(base, pushed) \subseteq Span(mergeBase, curHead)
<1> SUFFICES ASSUME TypeOK, ReviewInv, pc = "passed"
             PROVE  Span(base, pushed) \subseteq Span(mergeBase, curHead)
  OBVIOUS
<1>1. /\ curHead \in Commits /\ pushed \in Anc[curHead] /\ Anc[mergeBase] \subseteq Anc[base]
      /\ Anc[base] \cap Anc[curHead] \subseteq Anc[mergeBase]
  BY DEF TypeOK, RunOK, ReviewInv, RefsHeld
<1> QED
  BY <1>1, Ancestry DEF Span

\* A run that lets a push through covers what the push brings.
LEMMA PassReviewed == TypeOK /\ ReviewInv => NoUnreviewedPush
<1> SUFFICES ASSUME TypeOK, ReviewInv, pc = "passed" PROVE Pushed \subseteq reviewed[cfg]
  BY DEF NoUnreviewedPush
<1>1. Span(base, pushed) \subseteq Span(mergeBase, curHead)
  BY PassSpan
<1> QED
  BY <1>1 DEF ReviewInv, RunCovers, Pushed

\* While no ref races with a run: no unreviewed push, and the saved state is a
\* sound baseline, for every history, policy and number of attempts.
THEOREM PushIsReviewed ==
    ASSUME ~RefRaces PROVE Spec => [](NoUnreviewedPush /\ BaselineReviewed)
<1>1. Init => ReviewInv
  BY InitReviewed
<1>2. TypeOK /\ ReviewInv /\ [Next]_vars => ReviewInv'
  BY NextReviewed
<1>3. TypeOK /\ ReviewInv => NoUnreviewedPush /\ BaselineReviewed
  BY PassReviewed DEF ReviewInv
<1> QED
  BY TypeCorrect, <1>1, <1>2, <1>3, PTL DEF Spec

\* The saved state is a sound baseline for the next run: all that its span holds
\* is reviewed or recorded as its debt.
THEOREM BaselineIsReviewed == ASSUME ~RefRaces PROVE Spec => []BaselineReviewed
  BY PushIsReviewed, PTL

\* Only a run that reaches its end, or dies in that write, changes the saved state.
LEMMA StateIsSaved == [Next]_vars /\ stateFile' # stateFile => WriteState \/ stateFile' = None
  BY DEF Next, Developer, Gate, vars, fileVars, MoveHead, MoveBase, ChangeConfig, Suppress, Unsuppress,
         ManualLoad, ManualWrite, Crash, Start, ReadHead, ReadMergeBase, ChooseMode, ReadDiff,
         CaptureSnapshot, RunReview, FollowUp, Validate, LoadTriage, ResolveCarried, WriteReport,
         WriteTriage, Exit, Refresh

\* While no ref races with a run, coverage debt is paid by reviews, whatever
\* chain of full, fallback, incremental and resumed runs pays it.
THEOREM DebtIsPaid == ASSUME ~RefRaces PROVE Spec => DebtPaidByReview
<1> DEFINE Paid == stateFile # None /\ stateFile' # None
                      /\ Debt(stateFile.report) /\ ~Debt(stateFile'.report)
                      => Span(stateFile'.mergeBase, stateFile'.head) \cap stateFile.report.packs
                            \subseteq stateFile'.report.reviewed
<1>1. TypeOK /\ ReviewInv /\ [Next]_vars => [Paid]_stateFile
  <2> SUFFICES ASSUME TypeOK, ReviewInv, [Next]_vars, stateFile' # stateFile, stateFile' # None,
                      Debt(stateFile.report), ~Debt(stateFile'.report)
               PROVE  Span(stateFile'.mergeBase, stateFile'.head) \cap stateFile.report.packs
                         \subseteq stateFile'.report.reviewed
    OBVIOUS
  <2>1. WriteState
    BY StateIsSaved
  <2>2. /\ stateFile'.mergeBase = mergeBase /\ stateFile'.head = SavedHead
        /\ stateFile'.report = report /\ report.reviewed = report.packs
        /\ pc = "state"
        /\ mode # "full" => retry = stateFile
    <3>1. stateFile' = [head |-> SavedHead, mergeBase |-> mergeBase, config |-> cfg,
                        active |-> Active, report |-> report] /\ pc = "state"
      BY <2>1 DEF WriteState, SavedState
    <3> QED
      BY <3>1 DEF Debt, ReviewInv, ModeHeld
  <2>3. CASE FromBase
    BY <2>2, <2>3 DEF FromBase, SavedHead, ReviewInv, RunCovers, Decided
  <2>4. CASE mode = "coverage"
    BY <2>2, <2>4 DEF ReviewInv, ReportHeld
  <2>5. CASE mode \in {"incremental", "resolution"}
    BY <2>2, <2>5 DEF ReviewInv, ModeHeld
  <2> QED
    BY <2>3, <2>4, <2>5 DEF TypeOK, RunOK, FromBase
<1>2. Init => ReviewInv
  BY InitReviewed
<1>3. TypeOK /\ ReviewInv /\ [Next]_vars => ReviewInv'
  BY NextReviewed
<1> QED
  BY TypeCorrect, <1>1, <1>2, <1>3, PTL DEF Spec, DebtPaidByReview
--------------------------------------------------------------------------------
(* The resolver is asked once.  Deferred findings of the saved state are the    *)
(* ones that no resumed run asked about, and a finding is carried once.         *)

OneEach(cs) == \A c, d \in cs : c.finding = d.finding => c = d
Unasked(cs, fs) == \A c \in cs : c.deferred => c.finding \notin fs

AskedInv ==
    /\ pc \in {"idle", "head", "mergebase", "mode"} => mode = "full"
    /\ mode # "full" /\ pc \notin {"passed", "rejected"} => retry = stateFile
    /\ stateFile # None => OneEach(stateFile.active) /\ Unasked(stateFile.active, attempted)
    /\ Resolved => OneEach(carried) /\ Unasked(carried, asked)
    /\ Resolved /\ mode = "resolution" => /\ Unasked(carried, attempted)
                                          /\ asked \cap attempted = {}

\* What is kept with a flag was among the findings.
LEMMA KeepOrigin ==
    ASSUME NEW cs, NEW flag, NEW c \in Keep(cs, flag)
    PROVE  \E d \in cs : c = [finding |-> d.finding, deferred |-> flag]
  BY DEF Keep

\* What the resolver keeps of the carried findings.
Kept(ask, res, available) ==
    LET needs == NeedsResolution(CarriedOver)
        same  == CarriedOver \ (needs \cup IsStale(CarriedOver))
    IN  KeepsOutcome(CarriedOver) \cup Keep(same \ KeepsOutcome(CarriedOver), FALSE)
        \cup Unresolved(needs, ask, res, available)

\* A step of the resolver in terms of what it keeps.
LEMMA ResolverStep ==
    ResolveCarried =>
        \E ask \in UnderLimit(NeedsResolution(CarriedOver)), available \in BOOLEAN :
        \E res \in SUBSET (IF available THEN ask ELSE {}) :
            /\ asked' = IF available THEN Found(ask) ELSE {}
            /\ resolved' = Found(res)
            /\ stale' = Found(IsStale(CarriedOver))
            /\ carried' = {c \in Kept(ask, res, available) : c.finding \notin triage}
            /\ hidden' = hidden \cup (Found(Kept(ask, res, available)) \cap triage)
  BY DEF ResolveCarried, Kept

\* Every carried finding that is kept comes from one of the run, with the flag
\* of the way it was kept.
LEMMA KeptOrigin ==
    ASSUME NEW ask, NEW res, NEW available \in BOOLEAN, NEW c \in Kept(ask, res, available),
           ask \subseteq NeedsResolution(CarriedOver)
    PROVE  \E d \in CarriedOver :
              /\ c.finding = d.finding
              /\ \/ d \in KeepsOutcome(CarriedOver) /\ c = d
                 \/ /\ d \notin KeepsOutcome(CarriedOver) /\ d \notin NeedsResolution(CarriedOver)
                    /\ c = [finding |-> d.finding, deferred |-> FALSE]
                 \/ d \in ask /\ c = [finding |-> d.finding, deferred |-> FALSE]
                 \/ /\ d \in NeedsResolution(CarriedOver) \ ask
                    /\ c = [finding |-> d.finding, deferred |-> available]
<1> DEFINE needs == NeedsResolution(CarriedOver)
           same == CarriedOver \ (needs \cup IsStale(CarriedOver))
<1>0. needs \subseteq CarriedOver /\ KeepsOutcome(CarriedOver) \subseteq CarriedOver
  BY DEF NeedsResolution, KeepsOutcome
<1>1. CASE c \in KeepsOutcome(CarriedOver)
  BY <1>0, <1>1
<1>2. CASE c \in Keep(same \ KeepsOutcome(CarriedOver), FALSE)
  <2>1. PICK d \in same \ KeepsOutcome(CarriedOver) : c = [finding |-> d.finding, deferred |-> FALSE]
    BY <1>2, KeepOrigin
  <2> QED
    BY <2>1
<1>3. CASE c \in Keep(ask \ res, FALSE)
  <2>1. PICK d \in ask \ res : c = [finding |-> d.finding, deferred |-> FALSE]
    BY <1>3, KeepOrigin
  <2> QED
    BY <1>0, <2>1
<1>4. CASE c \in Keep(needs \ ask, available)
  <2>1. PICK d \in needs \ ask : c = [finding |-> d.finding, deferred |-> available]
    BY <1>4, KeepOrigin
  <2> QED
    BY <1>0, <2>1
<1> QED
  BY <1>1, <1>2, <1>3, <1>4 DEF Kept, Unresolved

\* The findings that were not asked are the deferred ones, each kept once.
LEMMA ResolverAsksOnce ==
    ASSUME TypeOK, AskedInv, ResolveCarried
    PROVE  /\ OneEach(carried') /\ Unasked(carried', asked')
           /\ mode = "resolution" => Unasked(carried', attempted) /\ asked' \cap attempted = {}
<1> DEFINE cs == CarriedOver
           needs == NeedsResolution(cs)
<1>1. PICK ask \in UnderLimit(needs), available \in BOOLEAN :
        \E res \in SUBSET (IF available THEN ask ELSE {}) :
            /\ asked' = IF available THEN Found(ask) ELSE {}
            /\ carried' = {c \in Kept(ask, res, available) : c.finding \notin triage}
  BY ResolverStep
<1>2. PICK res \in SUBSET (IF available THEN ask ELSE {}) :
            /\ asked' = IF available THEN Found(ask) ELSE {}
            /\ carried' = {c \in Kept(ask, res, available) : c.finding \notin triage}
  BY <1>1
<1>3. ask \subseteq needs /\ needs \subseteq cs
  BY DEF UnderLimit, NeedsResolution
<1>4. /\ cs \subseteq Carried /\ OneEach(cs)
      /\ mode = "resolution" => Unasked(cs, attempted)
  <2>1. CASE mode = "full"
    BY <2>1 DEF CarriedOver, OneEach
  <2>2. CASE mode # "full"
    <3>1. retry = stateFile /\ retry # None /\ retry \in State /\ cs = retry.active
      BY <2>2 DEF AskedInv, ResolveCarried, TypeOK, RunOK, CarriedOver
    <3> QED
      BY <3>1 DEF AskedInv, State
  <2> QED
    BY <2>1, <2>2
<1>5. \A d \in needs : d \notin KeepsOutcome(cs) /\ (mode = "resolution" => d.deferred)
  BY DEF NeedsResolution, KeepsOutcome
<1>6. \A d \in KeepsOutcome(cs) : ~d.deferred
  BY DEF KeepsOutcome
<1>7. OneEach(carried')
  <2> SUFFICES ASSUME NEW c \in carried', NEW e \in carried', c.finding = e.finding PROVE c = e
    BY DEF OneEach
  <2>1. PICK d \in cs :
              /\ c.finding = d.finding
              /\ \/ d \in KeepsOutcome(cs) /\ c = d
                 \/ /\ d \notin KeepsOutcome(cs) /\ d \notin needs
                    /\ c = [finding |-> d.finding, deferred |-> FALSE]
                 \/ d \in ask /\ c = [finding |-> d.finding, deferred |-> FALSE]
                 \/ d \in needs \ ask /\ c = [finding |-> d.finding, deferred |-> available]
    BY <1>2, <1>3, KeptOrigin
  <2>2. PICK d2 \in cs :
              /\ e.finding = d2.finding
              /\ \/ d2 \in KeepsOutcome(cs) /\ e = d2
                 \/ /\ d2 \notin KeepsOutcome(cs) /\ d2 \notin needs
                    /\ e = [finding |-> d2.finding, deferred |-> FALSE]
                 \/ d2 \in ask /\ e = [finding |-> d2.finding, deferred |-> FALSE]
                 \/ d2 \in needs \ ask /\ e = [finding |-> d2.finding, deferred |-> available]
    BY <1>2, <1>3, KeptOrigin
  <2>3. d = d2
    BY <1>4, <2>1, <2>2 DEF OneEach
  <2>4. CASE d \in KeepsOutcome(cs)
    <3>1. c = d /\ e = d
      BY <1>3, <1>5, <2>1, <2>2, <2>3, <2>4
    <3> QED
      BY <3>1
  <2>5. CASE d \in ask
    <3>1. /\ c = [finding |-> d.finding, deferred |-> FALSE]
          /\ e = [finding |-> d.finding, deferred |-> FALSE]
      BY <1>3, <1>5, <2>1, <2>2, <2>3, <2>5
    <3> QED
      BY <3>1
  <2>6. CASE d \in needs \ ask
    <3>1. /\ c = [finding |-> d.finding, deferred |-> available]
          /\ e = [finding |-> d.finding, deferred |-> available]
      BY <1>5, <2>1, <2>2, <2>3, <2>6
    <3> QED
      BY <3>1
  <2>7. CASE d \notin KeepsOutcome(cs) /\ d \notin needs
    <3>1. /\ c = [finding |-> d.finding, deferred |-> FALSE]
          /\ e = [finding |-> d.finding, deferred |-> FALSE]
      BY <1>3, <2>1, <2>2, <2>3, <2>7
    <3> QED
      BY <3>1
  <2> QED
    BY <2>4, <2>5, <2>6, <2>7
<1>8. ASSUME NEW c \in carried', c.deferred
      PROVE  \E d \in needs \ ask : c.finding = d.finding
  <2>1. PICK d \in cs :
              /\ c.finding = d.finding
              /\ \/ d \in KeepsOutcome(cs) /\ c = d
                 \/ /\ d \notin KeepsOutcome(cs) /\ d \notin needs
                    /\ c = [finding |-> d.finding, deferred |-> FALSE]
                 \/ d \in ask /\ c = [finding |-> d.finding, deferred |-> FALSE]
                 \/ d \in needs \ ask /\ c = [finding |-> d.finding, deferred |-> available]
    BY <1>2, <1>3, KeptOrigin
  <2> QED
    BY <1>6, <1>8, <2>1
<1>9. Unasked(carried', asked')
  <2> SUFFICES ASSUME NEW c \in carried', c.deferred, c.finding \in asked' PROVE FALSE
    BY DEF Unasked
  <2>1. PICK d \in needs \ ask : c.finding = d.finding
    BY <1>8
  <2>2. PICK a \in ask : a.finding = c.finding
    BY <1>2 DEF Found
  <2> QED
    BY <1>3, <1>4, <2>1, <2>2 DEF OneEach
<1>10. ASSUME mode = "resolution" PROVE Unasked(carried', attempted)
  <2> SUFFICES ASSUME NEW c \in carried', c.deferred PROVE c.finding \notin attempted
    BY DEF Unasked
  <2>1. PICK d \in needs \ ask : c.finding = d.finding
    BY <1>8
  <2> QED
    BY <1>3, <1>4, <1>5, <1>10, <2>1 DEF Unasked
<1>11. ASSUME mode = "resolution" PROVE asked' \cap attempted = {}
  <2> SUFFICES ASSUME NEW f \in asked' PROVE f \notin attempted
    OBVIOUS
  <2>1. PICK a \in ask : a.finding = f
    BY <1>2 DEF Found
  <2> QED
    BY <1>3, <1>4, <1>5, <1>11, <2>1 DEF Unasked
<1> QED
  BY <1>7, <1>9, <1>10, <1>11

\* The state that a run saves defers what no run has asked about.
LEMMA SavedUnasked ==
    ASSUME TypeOK, AskedInv, WriteState
    PROVE  OneEach(stateFile'.active) /\ Unasked(stateFile'.active, attempted')
<1>1. /\ stateFile'.active = Active
      /\ attempted' = IF mode = "resolution" THEN attempted \cup asked ELSE asked
      /\ OneEach(carried) /\ Unasked(carried, asked)
      /\ mode = "resolution" => Unasked(carried, attempted)
  <2>1. stateFile' = [head |-> SavedHead, mergeBase |-> mergeBase, config |-> cfg,
                      active |-> Active, report |-> report]
    BY DEF WriteState, SavedState
  <2> QED
    BY <2>1 DEF WriteState, AskedInv, Resolved
<1>2. \A c \in Active : \/ c \in carried
                        \/ /\ \E f \in current : c = [finding |-> f, deferred |-> FALSE]
                           /\ \A d \in carried : d.finding # c.finding
  <2> SUFFICES ASSUME NEW c \in Active, c \notin carried
               PROVE  /\ \E f \in current : c = [finding |-> f, deferred |-> FALSE]
                      /\ \A d \in carried : d.finding # c.finding
    OBVIOUS
  <2>1. PICK f \in current \ Found(carried) : c = [finding |-> f, deferred |-> FALSE]
    BY DEF Active
  <2> QED
    BY <2>1 DEF Found
<1>3. OneEach(Active)
  <2> SUFFICES ASSUME NEW c \in Active, NEW d \in Active, c.finding = d.finding PROVE c = d
    BY DEF OneEach
  <2>1. CASE c \in carried
    BY <1>1, <1>2, <2>1 DEF OneEach
  <2>2. CASE c \notin carried /\ d \notin carried
    <3>1. PICK f : c = [finding |-> f, deferred |-> FALSE]
      BY <1>2, <2>2
    <3>2. PICK g : d = [finding |-> g, deferred |-> FALSE]
      BY <1>2, <2>2
    <3>3. f = g
      BY <3>1, <3>2
    <3> QED
      BY <3>1, <3>2, <3>3
  <2> QED
    BY <1>2, <2>1, <2>2
<1>4. Unasked(Active, attempted')
  <2> SUFFICES ASSUME NEW c \in Active, c.deferred PROVE c.finding \notin attempted'
    BY DEF Unasked
  <2>1. c \in carried
    BY <1>2
  <2> QED
    BY <1>1, <2>1 DEF Unasked
<1> QED
  BY <1>1, <1>3, <1>4

\* Every step keeps that the resolver is asked once.
LEMMA NextAsked == TypeOK /\ AskedInv /\ [Next]_vars => AskedInv'
<1> SUFFICES ASSUME TypeOK, AskedInv, [Next]_vars PROVE AskedInv'
  OBVIOUS
<1>f. ASSUME UNCHANGED <<pc, mode, retry, stateFile, attempted, carried, asked>> PROVE AskedInv'
  BY <1>f DEF AskedInv, Resolved, OneEach, Unasked
<1>1. CASE \/ \E h \in Commits : MoveHead(h)
           \/ \E b \in Bases : MoveBase(b)
           \/ \E k \in Configs : ChangeConfig(k)
           \/ \E f \in Buggy : Suppress(f) \/ Unsuppress(f)
           \/ ManualLoad \/ ManualWrite
  <2>1. UNCHANGED <<pc, mode, retry, stateFile, attempted, carried, asked>>
    BY <1>1 DEF MoveHead, MoveBase, ChangeConfig, Suppress, Unsuppress, ManualLoad, ManualWrite,
                fileVars, runVars, decision, history
  <2> QED
    BY <1>f, <2>1
<1>2. CASE Crash
  <2>1. /\ pc' = "idle" /\ mode' = "full" /\ attempted' = attempted
        /\ stateFile' = stateFile \/ stateFile' = None
    BY <1>2 DEF Crash, ResetRun, history
  <2> QED
    BY <2>1 DEF AskedInv, Resolved, OneEach, Unasked
<1>3. CASE Start \/ ReadHead \/ ReadMergeBase
  <2>1. /\ UNCHANGED <<mode, retry, stateFile, attempted>> /\ mode = "full"
        /\ pc' \in {"head", "mergebase", "mode"}
    BY <1>3 DEF Start, ReadHead, ReadMergeBase, fileVars, history, AskedInv
  <2> QED
    BY <2>1 DEF AskedInv, Resolved, OneEach, Unasked
<1>4. CASE ChooseMode
  <2>1. retry' = stateFile /\ UNCHANGED <<stateFile, attempted>> /\ pc' \in {"followup", "diff"}
    BY <1>4 DEF ChooseMode, fileVars, history
  <2> QED
    BY <2>1 DEF AskedInv, Resolved, OneEach, Unasked
<1>5. CASE ReadDiff \/ CaptureSnapshot \/ RunReview \/ FollowUp \/ Validate \/ LoadTriage
  <2>1. /\ UNCHANGED <<retry, stateFile, attempted>>
        /\ pc \notin {"idle", "head", "mergebase", "mode", "passed", "rejected"}
        /\ pc' \notin {"idle", "head", "mergebase", "mode", "report", "savetriage", "state"}
        /\ mode' = mode \/ mode # "full"
    BY <1>5 DEF ReadDiff, CaptureSnapshot, RunReview, FollowUp, Refresh, Validate, LoadTriage,
                fileVars, runVars, history, TypeOK, RunOK
  <2> QED
    BY <2>1 DEF AskedInv, Resolved, OneEach, Unasked
<1>6. CASE ResolveCarried
  <2>1. /\ pc = "resolve" /\ pc' = "report" /\ UNCHANGED <<mode, retry, stateFile, attempted>>
    BY <1>6 DEF ResolveCarried, fileVars, runVars, history
  <2>2. /\ OneEach(carried)' /\ Unasked(carried, asked)'
        /\ mode' = "resolution" => /\ Unasked(carried, attempted)'
                                   /\ asked' \cap attempted' = {}
    BY <1>6, <2>1, ResolverAsksOnce DEF OneEach, Unasked
  <2> QED
    BY <2>1, <2>2 DEF AskedInv, OneEach, Unasked
<1>7. CASE WriteReport \/ WriteTriage
  <2>1. /\ UNCHANGED <<mode, retry, stateFile, attempted, carried, asked>>
        /\ Resolved /\ pc' \in {"savetriage", "state"}
    BY <1>7 DEF WriteReport, WriteTriage, fileVars, runVars, decision, history, Resolved
  <2> QED
    BY <2>1 DEF AskedInv, Resolved, OneEach, Unasked
<1>8. CASE WriteState
  <2>1. pc' \in {"passed", "rejected"}
    BY <1>8 DEF WriteState
  <2>2. (OneEach(stateFile.active) /\ Unasked(stateFile.active, attempted))'
    BY <1>8, SavedUnasked DEF OneEach, Unasked
  <2> QED
    BY <2>1, <2>2 DEF AskedInv, Resolved
<1>9. CASE Exit
  <2>1. pc' = "idle" /\ mode' = "full" /\ UNCHANGED <<stateFile, attempted>>
    BY <1>9 DEF Exit, ResetRun, fileVars, history
  <2> QED
    BY <2>1 DEF AskedInv, Resolved, OneEach, Unasked
<1>10. CASE UNCHANGED vars
  BY <1>10, <1>f DEF vars, runVars, fileVars, decision, history
<1> QED
  BY <1>1, <1>2, <1>3, <1>4, <1>5, <1>6, <1>7, <1>8, <1>9, <1>10 DEF Next, Developer, Gate

\* A run that resumes the resolution sends no finding to the provider that an
\* earlier run sent with the same evidence, however refs race with the runs.
THEOREM ResolverAskedOnce == Spec => []ResumeAsksOnce
<1>1. Init => AskedInv
  BY DEF Init, IdleRun, AskedInv, Resolved
<1>2. TypeOK /\ AskedInv /\ [Next]_vars => AskedInv'
  BY NextAsked
<1>3. AskedInv => ResumeAsksOnce
  BY DEF AskedInv, ResumeAsksOnce
<1> QED
  BY TypeCorrect, <1>1, <1>2, <1>3, PTL DEF Spec
--------------------------------------------------------------------------------
(* No lost finding.  While no ref races with a run, what is open in the span of *)
(* the saved state is active in it, suppressed or dropped, and a run answers    *)
(* for the findings it starts from.                                             *)

\* The span that the run takes over from the saved state.
TakenOver == IF FromBase THEN {} ELSE Span(retry.mergeBase, retry.head)

\* The packs whose findings the run reports anew: a resumed report adds none.
Fresh == IF mode \in {"coverage", "resolution"} THEN {} ELSE report.packs

BaselineAnswered ==
    stateFile # None => open[stateFile.config] \cap Span(stateFile.mergeBase, stateFile.head)
                           \subseteq Found(stateFile.active) \cup waived \cup dropped

RunAnswers ==
    /\ Decided => Span(mergeBase, SavedHead) \subseteq Fresh \cup TakenOver
    /\ pc = "resolve" \/ Resolved => report.findings \subseteq current \cup hidden
    /\ Resolved => Found(CarriedOver) \subseteq
                     current \cup Found(carried) \cup stale \cup hidden \cup resolved
    /\ pc = "passed" => open[cfg] \cap Span(mergeBase, curHead) \subseteq waived \cup dropped

AnsweredInv == BaselineAnswered /\ RunAnswers

\* A validated report spans what the run will save, with the saved state's span
\* where the run is incremental.
LEMMA ValidatedSpans ==
    /\ TypeOK /\ ReviewInv /\ pc = "validate"
    /\ mode \in {"coverage", "resolution"} \/ SnapshotIsLive(report)
    => Span(mergeBase, SavedHead) \subseteq Fresh \cup TakenOver
<1> SUFFICES ASSUME TypeOK, ReviewInv, pc = "validate",
                    mode \in {"coverage", "resolution"} \/ SnapshotIsLive(report)
             PROVE  Span(mergeBase, SavedHead) \subseteq Fresh \cup TakenOver
  OBVIOUS
<1>1. CASE FromBase
  BY <1>1, ValidatedCovers DEF FromBase, SavedHead, Fresh
<1>2. CASE mode = "incremental"
  <2>1. /\ report.packs = Span(retry.head, head) /\ SavedHead = curHead
        /\ TakenOver = Span(retry.mergeBase, retry.head) /\ retry.mergeBase = mergeBase
    BY <1>2 DEF SnapshotIsLive, ReviewInv, ReportHeld, ModeHeld, Eligible, SavedHead, TakenOver, Fresh, FromBase
  <2>2. head \in Commits /\ curHead \in Anc[head]
    BY HistoryAssumption DEF TypeOK, DeveloperOK, ReviewInv, RefsHeld
  <2>3. Anc[curHead] \subseteq Anc[head]
    BY <2>2, Ancestry
  <2> QED
    BY <1>2, <2>1, <2>3 DEF Span, Fresh
<1>3. CASE mode \in {"coverage", "resolution"}
  BY <1>3 DEF ReviewInv, ModeHeld, Eligible, SavedHead, TakenOver, Fresh, FromBase
<1> QED
  BY <1>1, <1>2, <1>3 DEF TypeOK, RunOK, FromBase

\* The resolver leaves no carried finding without an answer.
LEMMA ResolverAnswers ==
    ASSUME TypeOK, ResolveCarried
    PROVE  Found(CarriedOver) \subseteq
              current \cup Found(carried') \cup stale' \cup hidden' \cup resolved'
<1> DEFINE cs == CarriedOver
           needs == NeedsResolution(cs)
           gone == IsStale(cs)
           same == cs \ (needs \cup gone)
<1>1. PICK ask \in UnderLimit(needs), available \in BOOLEAN :
        \E res \in SUBSET (IF available THEN ask ELSE {}) :
            /\ asked' = IF available THEN Found(ask) ELSE {}
            /\ resolved' = Found(res)
            /\ stale' = Found(gone)
            /\ carried' = {c \in Kept(ask, res, available) : c.finding \notin triage}
            /\ hidden' = hidden \cup (Found(Kept(ask, res, available)) \cap triage)
  BY ResolverStep
<1>2. PICK res \in SUBSET (IF available THEN ask ELSE {}) :
            /\ asked' = IF available THEN Found(ask) ELSE {}
            /\ resolved' = Found(res)
            /\ stale' = Found(gone)
            /\ carried' = {c \in Kept(ask, res, available) : c.finding \notin triage}
            /\ hidden' = hidden \cup (Found(Kept(ask, res, available)) \cap triage)
  BY <1>1
<1> SUFFICES ASSUME NEW c \in cs
             PROVE  c.finding \in current \cup Found(carried') \cup stale' \cup hidden' \cup resolved'
  BY DEF Found
<1>3. ASSUME NEW k \in Kept(ask, res, available), k.finding = c.finding
      PROVE  c.finding \in Found(carried') \cup hidden'
  BY <1>2, <1>3 DEF Found
<1>4. CASE c \in KeepsOutcome(cs)
  BY <1>3, <1>4 DEF Kept
<1>5. CASE c \in gone
  BY <1>2, <1>5 DEF Found
<1>6. CASE c \in same \ KeepsOutcome(cs)
  <2>1. [finding |-> c.finding, deferred |-> FALSE] \in Kept(ask, res, available)
    BY <1>6 DEF Kept, Keep
  <2> QED
    BY <1>3, <2>1
<1>7. CASE c \in res
  BY <1>2, <1>7 DEF Found
<1>8. CASE c \in ask \ res
  <2>1. [finding |-> c.finding, deferred |-> FALSE] \in Kept(ask, res, available)
    BY <1>8 DEF Kept, Unresolved, Keep
  <2> QED
    BY <1>3, <2>1
<1>9. CASE c \in needs \ ask
  <2>1. [finding |-> c.finding, deferred |-> available] \in Kept(ask, res, available)
    BY <1>9 DEF Kept, Unresolved, Keep
  <2> QED
    BY <1>3, <2>1
<1> QED
  BY <1>4, <1>5, <1>6, <1>7, <1>8, <1>9

\* What is open in the span of the state that a run saves was disposed of or is
\* active in it.
LEMMA SavedAnswers ==
    ASSUME TypeOK, ReviewInv, AnsweredInv, WriteState
    PROVE  open'[cfg] \cap Span(mergeBase, SavedHead) \subseteq Found(Active) \cup waived' \cup dropped'
<1>1. /\ cfg \in Configs /\ pc = "state" /\ Resolved /\ Decided
      /\ open \in [Configs -> SUBSET Commits]
      /\ open' = [open EXCEPT ![cfg] = (@ \ Closed) \cup report.findings \cup Found(Active)]
      /\ waived' = (waived \cup hidden) \ Found(Active)
      /\ dropped' = (dropped \cup stale) \ Found(Active)
  BY DEF WriteState, TypeOK, RunOK, HistoryOK, Resolved, Decided
<1>2. open'[cfg] = (open[cfg] \ Closed) \cup report.findings \cup Found(Active)
  BY <1>1
<1>3. current \subseteq Found(Active) /\ Found(carried) \subseteq Found(Active)
  <2>1. Found(carried) \subseteq Found(Active)
    BY DEF Found, Active
  <2>2. ASSUME NEW f \in current \ Found(carried) PROVE f \in Found(Active)
    <3>1. [finding |-> f, deferred |-> FALSE] \in Active
      BY DEF Active
    <3> QED
      BY <3>1 DEF Found
  <2> QED
    BY <2>1, <2>2
<1>4. report.findings \subseteq Found(Active) \cup waived'
  BY <1>1, <1>3 DEF AnsweredInv, RunAnswers
<1>5. Found(CarriedOver) \ resolved \subseteq Found(Active) \cup waived' \cup dropped'
  BY <1>1, <1>3 DEF AnsweredInv, RunAnswers
<1>6. ASSUME NEW f \in open[cfg] \ Closed, f \in Span(mergeBase, SavedHead)
      PROVE  f \in Found(Active) \cup waived' \cup dropped'
  <2>1. f \in Fresh \cup TakenOver /\ f \notin resolved
    BY <1>1, <1>6 DEF AnsweredInv, RunAnswers, Closed
  <2>2. CASE mode = "full"
    BY <1>6, <2>1, <2>2 DEF Closed, Fresh, TakenOver, FromBase
  <2>3. CASE mode # "full" /\ f \in Found(retry.active)
    BY <1>5, <2>1, <2>3 DEF CarriedOver
  <2>4. CASE mode # "full" /\ f \notin Found(retry.active)
    <3>1. f \in TakenOver /\ ~FromBase
      <4>1. f \notin Fresh
        BY <1>6, <2>4 DEF Closed, Fresh
      <4> QED
        BY <2>1, <4>1 DEF TakenOver
    <3>2. /\ stateFile # None /\ stateFile.config = cfg /\ retry = stateFile
          /\ f \in Span(stateFile.mergeBase, stateFile.head)
      BY <1>1, <2>4, <3>1 DEF ReviewInv, ModeHeld, Eligible, TakenOver
    <3>3. f \in waived \cup dropped
      BY <1>6, <2>4, <3>2 DEF AnsweredInv, BaselineAnswered
    <3> QED
      BY <1>1, <3>3
  <2> QED
    BY <2>2, <2>3, <2>4
<1> QED
  BY <1>2, <1>4, <1>6

\* Every step keeps the answers for the findings.
LEMMA NextAnswered == TypeOK /\ ReviewInv /\ AnsweredInv /\ [Next]_vars => AnsweredInv'
<1> SUFFICES ASSUME TypeOK, ReviewInv, AnsweredInv, [Next]_vars PROVE AnsweredInv'
  OBVIOUS
<1> USE DEF AnsweredInv
<1>f. /\ UNCHANGED <<stateFile, history>> => BaselineAnswered'
      /\ UNCHANGED <<pc, runVars, decision, history>> => RunAnswers'
  <2>1. UNCHANGED <<stateFile, history>> => BaselineAnswered'
    BY DEF history, BaselineAnswered
  <2>2. UNCHANGED <<pc, runVars, decision, history>> => RunAnswers'
    BY DEF runVars, decision, history, RunAnswers, Decided, Resolved, SavedHead, TakenOver, Fresh, FromBase,
           CarriedOver
  <2> QED
    BY <2>1, <2>2
<1>g. /\ UNCHANGED fileVars => UNCHANGED stateFile
      /\ pc' \in {"idle", "head", "mergebase", "mode", "diff", "snapshot", "review", "followup",
                  "validate", "rejected"} => RunAnswers'
  BY DEF fileVars, RunAnswers, Decided, Resolved
<1>1. CASE \/ \E h \in Commits : MoveHead(h)
           \/ \E b \in Bases : MoveBase(b)
           \/ \E k \in Configs : ChangeConfig(k)
           \/ \E f \in Buggy : Suppress(f) \/ Unsuppress(f)
           \/ ManualLoad \/ ManualWrite
  <2>1. UNCHANGED <<pc, runVars, decision, history, stateFile>>
    BY <1>1, <1>g DEF MoveHead, MoveBase, ChangeConfig, Suppress, Unsuppress, ManualLoad, ManualWrite
  <2> QED
    BY <1>f, <2>1
<1>2. CASE Crash
  <2>1. /\ pc' = "idle" /\ UNCHANGED history /\ (stateFile' = stateFile \/ stateFile' = None)
    BY <1>2 DEF Crash, ResetRun
  <2> QED
    BY <1>f, <1>g, <2>1 DEF BaselineAnswered
<1>3. CASE Start \/ ReadHead \/ ReadMergeBase \/ ChooseMode \/ ReadDiff \/ CaptureSnapshot
           \/ RunReview \/ FollowUp
  <2>1. /\ UNCHANGED history /\ UNCHANGED stateFile
        /\ pc' \in {"head", "mergebase", "mode", "diff", "snapshot", "review", "followup", "validate"}
    BY <1>3, <1>g DEF Start, ReadHead, ReadMergeBase, ChooseMode, ReadDiff, CaptureSnapshot,
                      RunReview, FollowUp, Refresh
  <2> QED
    BY <1>f, <1>g, <2>1
<1>4. CASE Validate
  <2>1. /\ pc = "validate" /\ pc' \in {"triage", "rejected"} /\ UNCHANGED <<runVars, history, stateFile>>
        /\ pc' = "triage" => mode \in {"coverage", "resolution"} \/ SnapshotIsLive(report)
    BY <1>4, <1>g DEF Validate
  <2>2. RunAnswers'
    BY <1>g, <2>1, ValidatedSpans
       DEF RunAnswers, Decided, Resolved, SavedHead, TakenOver, Fresh, FromBase, runVars
  <2> QED
    BY <1>f, <2>1, <2>2
<1>5. CASE LoadTriage
  <2>1. /\ pc = "triage" /\ pc' = "resolve" /\ UNCHANGED <<runVars, history, stateFile>>
        /\ current' = report.findings \ suppressions /\ hidden' = report.findings \cap suppressions
    BY <1>5, <1>g DEF LoadTriage
  <2>2. RunAnswers'
    BY <2>1 DEF RunAnswers, Decided, Resolved, SavedHead, TakenOver, Fresh, FromBase, runVars
  <2> QED
    BY <1>f, <2>1, <2>2
<1>6. CASE ResolveCarried
  <2>1. /\ pc = "resolve" /\ pc' = "report" /\ UNCHANGED <<runVars, history, stateFile, current>>
        /\ hidden \subseteq hidden'
    BY <1>6, <1>g, ResolverStep DEF ResolveCarried
  <2>2. Found(CarriedOver) \subseteq
              current \cup Found(carried') \cup stale' \cup hidden' \cup resolved'
    BY <1>6, ResolverAnswers
  <2>3. Found(carried)' = Found(carried') /\ Found(CarriedOver)' = Found(CarriedOver)
    BY <2>1 DEF Found, CarriedOver, runVars
  <2>4. RunAnswers'
    BY <2>1, <2>2, <2>3 DEF RunAnswers, Decided, Resolved, SavedHead, TakenOver, Fresh, FromBase, runVars
  <2> QED
    BY <1>f, <2>1, <2>4
<1>7. CASE WriteReport \/ WriteTriage
  <2>1. /\ UNCHANGED <<runVars, decision, history, stateFile>>
        /\ Resolved /\ pc' \in {"savetriage", "state"}
    BY <1>7, <1>g DEF WriteReport, WriteTriage, Resolved
  <2>2. RunAnswers'
    BY <2>1 DEF RunAnswers, Decided, Resolved, SavedHead, TakenOver, Fresh, FromBase, CarriedOver, runVars,
                decision
  <2> QED
    BY <1>f, <2>1, <2>2
<1>8. CASE WriteState
  <2>1. stateFile' = [head |-> SavedHead, mergeBase |-> mergeBase, config |-> cfg,
                      active |-> Active, report |-> report]
    BY <1>8 DEF WriteState, SavedState
  <2>2. open'[cfg] \cap Span(mergeBase, SavedHead) \subseteq Found(Active) \cup waived' \cup dropped'
    BY <1>8, SavedAnswers
  <2>3. BaselineAnswered'
    BY <2>1, <2>2 DEF BaselineAnswered, Found, Span
  <2>4. CASE pc' = "passed"
    <3>1. current = {} /\ carried = {} /\ SavedHead = curHead /\ UNCHANGED runVars
      BY <1>8, <2>4 DEF WriteState, Rejects, SavedHead, ReviewInv, ModeHeld
    <3>2. Found(Active) = {}
      BY <3>1 DEF Found, Active
    <3>3. RunAnswers'
      BY <2>2, <2>4, <3>1, <3>2 DEF RunAnswers, Decided, Resolved, Span, runVars
    <3> QED
      BY <2>3, <3>3
  <2>5. CASE pc' # "passed"
    BY <1>8, <1>g, <2>3, <2>5 DEF WriteState
  <2> QED
    BY <2>4, <2>5
<1>9. CASE Exit
  <2>1. pc' = "idle" /\ UNCHANGED <<stateFile, history>>
    BY <1>9, <1>g DEF Exit, ResetRun
  <2> QED
    BY <1>f, <1>g, <2>1
<1>10. CASE UNCHANGED vars
  BY <1>10, <1>f, <1>g DEF vars
<1> QED
  BY <1>1, <1>2, <1>3, <1>4, <1>5, <1>6, <1>7, <1>8, <1>9, <1>10 DEF Next, Developer, Gate

\* While no ref races with a run, a push that the hook lets through brings no
\* finding that was reported on its commits and not disposed of, whatever chain
\* of attempts, modes, crashes and configurations came before.
THEOREM NoFindingIsLost == ASSUME ~RefRaces PROVE Spec => []NoLostFinding
<1>1. Init => ReviewInv /\ AnsweredInv
  BY InitReviewed DEF Init, IdleRun, AnsweredInv, BaselineAnswered, RunAnswers, Decided, Resolved
<1>2. TypeOK /\ ReviewInv /\ AnsweredInv /\ [Next]_vars => ReviewInv' /\ AnsweredInv'
  BY NextReviewed, NextAnswered
<1>3. TypeOK /\ ReviewInv /\ AnsweredInv => NoLostFinding
  <2> SUFFICES ASSUME TypeOK, ReviewInv, AnsweredInv, pc = "passed"
               PROVE  open[cfg] \cap Pushed \subseteq waived \cup dropped
    BY DEF NoLostFinding
  <2>1. Pushed \subseteq Span(mergeBase, curHead)
    BY PassSpan DEF Pushed
  <2> QED
    BY <2>1 DEF AnsweredInv, RunAnswers
<1> QED
  BY TypeCorrect, <1>1, <1>2, <1>3, PTL DEF Spec
================================================================================
