--------------------------- MODULE ReviewCoverage --------------------------
(***************************************************************************)
(* What a report says of its own coverage (report/coverage.py with         *)
(* report/coverage_breakdown.py): the debt that is left, the quality gate, *)
(* the severity of a partial review, the standing of each reviewer and the *)
(* todos.                                                                  *)
(*                                                                         *)
(* A report r has r.config, r.sel (the selection of each reviewer) and     *)
(* r.asg (the latest runs of each reviewer on each pack).  Reviewers are   *)
(* numbered in the order of the configuration, which is that of their ids. *)
(* An assignment has at most one finding, and decided findings are not     *)
(* told from none: only one without a decision is debt.                    *)
(***************************************************************************)
EXTENDS PackSelection

\* depth: of the last review; status: its outcome; verify: that of its verification;
\* unresolved: a finding of this or of an earlier review has no decision.
Assignment == [depth : Depths \cup {"none"}, status : {"none", "ok", "failed", "skipped"},
               verify : {"none", "ok", "failed"}, unresolved : BOOLEAN]
Untouched  == [depth |-> "none", status |-> "none", verify |-> "none", unresolved |-> FALSE]

Ids(r)        == DOMAIN r.config.reviewers
Matches(r, i) == r.config.reviewers[i].matches
Verifies(r, i) == r.config.reviewers[i].verify
Required(r, i) == r.config.named /\ r.config.reviewers[i].required

\* With --reviewer, packs that no requested reviewer matches are outside the report's scope.
Scoped(r) == IF r.config.requested THEN UNION {Matches(r, i) : i \in Ids(r)} ELSE Packs

ReviewedBy(r, i)  == {p \in Packs : r.asg[i][p].status = "ok"}
ReviewedAt(r, d)  == {p \in Scoped(r) : \E i \in Ids(r) : r.asg[i][p].status = "ok" /\ r.asg[i][p].depth = d}
Reviewed(r)       == UNION {ReviewedAt(r, d) : d \in Depths}
Unreviewed(r)     == Scoped(r) \ Reviewed(r)
FailedAt(r, p)    == {r.asg[i][p].status : i \in Ids(r)} \cap {"failed", "skipped"}
FailedReviews(r, i) == {p \in Packs : r.asg[i][p].status \in {"failed", "skipped"}}
FailedVerifies(r, i) == {p \in Packs : Verifies(r, i) /\ r.asg[i][p].verify = "failed"}
Unresolved(r, i)  == {p \in Packs : Verifies(r, i) /\ r.asg[i][p].unresolved}

HighRiskPacks(r) == {p \in Scoped(r) : HighRisk(p)}
ShallowOnly(r)   == HighRiskPacks(r) \cap (ReviewedAt(r, "shallow") \ ReviewedAt(r, "deep"))
Residual(r, level) == {p \in Unreviewed(r) : Priority(p) = level}

-----------------------------------------------------------------------------
(* Ratios, in parts of ten thousand as they are rounded. *)

Ratio(part, whole) == (20000 * part + whole) \div (2 * whole)

RatioOr(part, whole, default) == IF whole = 0 THEN default ELSE Ratio(part, whole)

LinesOf(packs) == UNION {{Pack[p].file} \X Pack[p].lines : p \in packs}

\* The changed lines of source files, by what was reviewed of them.
SourceRatio(r) ==
  LET source == {p \in Scoped(r) : Pack[p].kind = "source"}
  IN RatioOr(Cardinality(LinesOf(source \cap Reviewed(r))), Cardinality(LinesOf(source)), 10000)

HighRiskRatio(r) ==
  RatioOr(Cardinality(HighRiskPacks(r) \cap Reviewed(r)), Cardinality(HighRiskPacks(r)), 10000)

PackRatio(r) == RatioOr(Cardinality(Reviewed(r)), Cardinality(Scoped(r)), 0)

-----------------------------------------------------------------------------
(* Reviewers. *)

SelectedBy(r, i) == Selected(r.sel[i])

\* Variant: a reviewer has done its work when its reviews ran.
ReviewerDebtRunsOnly(r, i) ==
  IF SelectedBy(r, i) = {} THEN r.sel[i].total
  ELSE {p \in SelectedBy(r, i) : r.asg[i][p].status = "none"}

\* What _build_reviewer_coverage gives reasons for.
ReviewerDebt(r, i) ==
  (IF SelectedBy(r, i) = {} THEN r.sel[i].total ELSE SelectedBy(r, i) \ ReviewedBy(r, i))
    \cup FailedVerifies(r, i) \cup Unresolved(r, i)

ReviewerStatus(r, i) ==
  CASE r.sel[i].total = {} -> "not_applicable"
    [] r.sel[i].total # {} /\ ReviewerDebt(r, i) = {} -> "pass"
    [] OTHER -> IF Required(r, i) THEN "fail" ELSE "warn"

RequiredFails(r) == {i \in Ids(r) : Required(r, i) /\ ReviewerStatus(r, i) = "fail"}

\* Without configured reviewers the general review answers for its verifications.
GeneralUnverified(r) == ~r.config.named /\ \E i \in Ids(r) : Unresolved(r, i) # {}

-----------------------------------------------------------------------------
(* The verdicts of the report. *)

LlmSelection(r) == Merged(r.sel, Scoped(r))

\* Why a pack has no review (of two failures the one that says less is taken).
Reason(r, p) ==
  CASE "skipped" \in FailedAt(r, p) -> {"skipped"}
    [] FailedAt(r, p) = {"failed"} -> {"failed"}
    [] FailedAt(r, p) = {} /\ p \in DOMAIN LlmSelection(r).reasons -> LlmSelection(r).reasons[p]
    [] OTHER -> {"no run"}

PackStatus(r, p) ==
  CASE p \in ReviewedAt(r, "deep") -> "reviewed_deep"
    [] p \in ReviewedAt(r, "shallow") \ ReviewedAt(r, "deep") -> "reviewed_shallow"
    [] p \in Unreviewed(r) /\ Reason(r, p) \in {{"failed"}, {"skipped"}, {"context"}, {"tokens"}, {"cap"}} ->
         CHOOSE reason \in Reason(r, p) : TRUE
    [] OTHER -> "unreviewed"

BelowThreshold(r) ==
  \/ r.config.minSource # 0 /\ SourceRatio(r) < r.config.minSource
  \/ r.config.minHighRisk # 0 /\ HighRiskRatio(r) < r.config.minHighRisk

QualityGate(r) ==
  CASE RequiredFails(r) # {} \/ GeneralUnverified(r) -> "fail"
    [] RequiredFails(r) = {} /\ ~GeneralUnverified(r) /\ Scoped(r) # {}
         /\ (Residual(r, "p0") # {} \/ BelowThreshold(r)) -> "fail"
    [] OTHER -> IF Unreviewed(r) # {} \/ ShallowOnly(r) # {} THEN "warn" ELSE "pass"

SomeRunFailed(r) == \E i \in Ids(r) : FailedReviews(r, i) \cup FailedVerifies(r, i) # {}

PartialSeverity(r) ==
  CASE \/ RequiredFails(r) # {} \/ GeneralUnverified(r)
       \/ Scoped(r) # {} /\ (Residual(r, "p0") # {} \/ HighRiskRatio(r) < 10000) -> "critical"
    [] OTHER ->
         CASE Scoped(r) = {} -> "none"
           [] Scoped(r) # {} /\ (\/ SomeRunFailed(r) \/ Residual(r, "p1") # {}
                                 \/ ShallowOnly(r) # {} \/ SourceRatio(r) < 10000) -> "major"
           [] OTHER -> IF PackRatio(r) < 10000 THEN "minor" ELSE "none"

\* LLMCoverageSummary.completion_status (models.py)
Completion(r) ==
  LET hard == \/ \E p \in Scoped(r) : PackStatus(r, p) = "failed"
              \/ SomeRunFailed(r) \/ LlmSelection(r).over # {} \/ RequiredFails(r) # {}
  IN CASE hard -> "incomplete"
       [] ~hard /\ Unreviewed(r) = {} /\ PartialSeverity(r) = "none"
            /\ \A i \in Ids(r) : /\ r.sel[i].total \subseteq ReviewedBy(r, i)
                                 /\ ReviewerStatus(r, i) \notin {"warn", "fail"} -> "complete"
       [] OTHER -> "partial"

-----------------------------------------------------------------------------
(* The todos: a pack, and the reviewer that is to look at it (0 for anybody). *)

Todo(p, i) == [pack |-> p, reviewer |-> i]

ReviewerTodos(r) ==
  {Todo(t[2], t[1]) : t \in {x \in Ids(r) \X Packs :
     /\ ReviewerStatus(r, x[1]) # "not_applicable"
     /\ x[2] \in (r.sel[x[1]].total \ ReviewedBy(r, x[1]))
                   \cup FailedVerifies(r, x[1]) \cup Unresolved(r, x[1])}}

\* A deep look at a pack read only shallowly: by a required reviewer if one matches it.
DepthReviewer(r, p) ==
  LET able == {i \in Ids(r) : p \in r.sel[i].total}
  IN CASE able = {} -> 0
       [] \E i \in able : Required(r, i) -> Min({i \in able : Required(r, i)})
       [] OTHER -> Min(able)

\* What nobody reviewed is for anybody to review.
ResidualTodos(r) == {Todo(p, 0) : p \in Unreviewed(r)}

\* A pack that a reviewer has a todo for gets no other.
Todos(r) ==
  LET reviewers == ReviewerTodos(r)
      owed      == {t.pack : t \in reviewers}
  IN reviewers \cup {t \in ResidualTodos(r) : t.pack \notin owed}
               \cup {Todo(p, DepthReviewer(r, p)) : p \in ShallowOnly(r) \ owed}
=============================================================================
