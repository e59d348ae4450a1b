---------------------------- MODULE CoverageGate ----------------------------
(***************************************************************************)
(* The coverage side of the pre-push gate: the review that plans and runs  *)
(* every reviewer's packs (run_review_pipeline), the verdict on its        *)
(* coverage (gates.py), the follow-up that the gate runs on blocking debt  *)
(* by itself (cli/gate.py with continue_review_from_report), the command   *)
(* that the report prints for each debt, and the next push, which resumes  *)
(* the saved report.                                                       *)
(*                                                                         *)
(* Findings that block are GateRetry's: here every finding is decided or   *)
(* waits for its verification.  Provider failures are bounded.             *)
(***************************************************************************)
EXTENDS ReviewCoverage

CONSTANTS
  Setups,     \* configurations: the fields of ReviewCoverage's config and
              \* quality, threshold, auto ("on", "off", "legacy") and cap
  MaxTrouble  \* bound on the calls that fail

LimitValues == [mode : {"fast", "balanced", "exhaustive"}, packs : Nat, deep : Nat, tokens : Nat]
Thresholds  == {"none", "minor", "major", "critical"}

ASSUME SetupsAssumption ==
  /\ MaxTrouble \in Nat
  /\ \A s \in Setups :
       /\ s.cap \in Nat \ {0} /\ s.threshold \in Thresholds
       /\ s.minSource \in Nat /\ s.minSource <= 10000
       /\ s.minHighRisk \in Nat /\ s.minHighRisk <= 10000
       /\ Len(s.reviewers) \in Nat /\ DOMAIN s.reviewers = 1..Len(s.reviewers)
       /\ \A i \in DOMAIN s.reviewers :
            s.reviewers[i].matches \subseteq Packs /\ s.reviewers[i].limits \in LimitValues

VARIABLES
  setup,   \* the configuration of this repository
  sel,     \* the selection of each reviewer
  asg,     \* the state of each assignment
  pc,      \* "plan", "gate", "judge", "passed" or "blocked"
  trouble  \* calls that failed

vars == <<setup, sel, asg, pc, trouble>>

Report == [config |-> setup, sel |-> sel, asg |-> asg]

Init ==
  /\ setup \in Setups
  /\ sel = [i \in DOMAIN setup.reviewers |-> Selection(setup.reviewers[i].matches, {}, {}, {}, {}, <<>>)]
  /\ asg = [i \in DOMAIN setup.reviewers |-> [p \in Packs |-> Untouched]]
  /\ pc = "plan"
  /\ trouble = 0

-----------------------------------------------------------------------------
(* Calls.  A job is a review of a pack at a depth, or a verification alone. *)

Job(i, p, kind) == [reviewer |-> i, pack |-> p, kind |-> kind]

Jobs(chosen, kind) == {Job(x[1], x[2], kind) : x \in {y \in Ids(Report) \X Packs : y[2] \in chosen[y[1]]}}

\* A failed review keeps what was found before it, but the verification it had is reset.
After(old, job, outcome) ==
  CASE job.kind = "verify" ->
         [old EXCEPT !.verify = IF outcome = "ok" THEN "none" ELSE "failed", !.unresolved = outcome # "ok"]
    [] job.kind # "verify" /\ outcome \in {"failed", "skipped"} ->
         [old EXCEPT !.depth = job.kind, !.status = outcome, !.verify = "none"]
    [] OTHER -> [depth |-> job.kind, status |-> "ok", unresolved |-> outcome = "unverified",
                 verify |-> IF outcome = "unverified" THEN "failed" ELSE "none"]

Possible(job) ==
  (IF job.kind = "verify" THEN {} ELSE {"failed", "skipped"})
    \cup (IF setup.reviewers[job.reviewer].verify THEN {"unverified"} ELSE {})

Perform(todo) ==
  \E jobs \in {todo} : \E bad \in UNION {kSubset(k, jobs) : k \in 0..(MaxTrouble - trouble)} :
    /\ trouble' = trouble + Cardinality(bad)
    /\ \E how \in [bad -> {"failed", "skipped", "unverified"}] :
         /\ \A job \in bad : how[job] \in Possible(job)
         /\ asg' = [i \in DOMAIN asg |-> [p \in Packs |->
                     LET of == {job \in jobs : job.reviewer = i /\ job.pack = p}
                         job == CHOOSE j \in of : TRUE
                     IN IF of = {} THEN asg[i][p]
                        ELSE After(asg[i][p], job, IF job \in bad THEN how[job] ELSE "ok")]]

\* run_review_pipeline: every reviewer's packs are planned and reviewed.
Review ==
  /\ pc = "plan"
  /\ sel' = [i \in Ids(Report) |-> Plan(Matches(Report, i), LimitsOf(setup.reviewers[i]), {})]
  /\ Perform(Jobs([i \in Ids(Report) |-> sel'[i].deep], "deep")
               \cup Jobs([i \in Ids(Report) |-> sel'[i].shallow], "shallow"))
  /\ pc' = "gate"
  /\ UNCHANGED setup

-----------------------------------------------------------------------------
(* The verdict (evaluate_pre_push_gate). *)

PartialRank == [none |-> 0, minor |-> 1, major |-> 2, critical |-> 3]

QualityFailed(r) == r.config.quality /\ QualityGate(r) = "fail"

PartialBlocked(r) ==
  r.config.threshold # "none" /\ PartialRank[PartialSeverity(r)] >= PartialRank[r.config.threshold]

Blocked(r) == QualityFailed(r) \/ PartialBlocked(r)

-----------------------------------------------------------------------------
(* What the gate follows up. *)

ThresholdPriorities == [none |-> {}, critical |-> {"p0"}, major |-> {"p0", "p1"}, minor |-> {"p0", "p1", "p2"}]

OwedTo(r, reviewers) == {t.pack : t \in {x \in Todos(r) : x.reviewer \in reviewers}}

PartialBlocking(r) ==
  {p \in Unreviewed(r) : Priority(p) \in ThresholdPriorities[r.config.threshold] \/ PackStatus(r, p) = "failed"}
    \cup OwedTo(r, {i \in Ids(r) : \/ ReviewerStatus(r, i) = "fail"
                                   \/ SelectedBy(r, i) \cap FailedReviews(r, i) # {}
                                   \/ FailedVerifies(r, i) # {}})
    \cup ShallowOnly(r)

QualityBlocking(r) ==
  Residual(r, "p0")
    \cup {p \in Unreviewed(r) : \/ /\ r.config.minSource # 0
                                   /\ SourceRatio(r) < r.config.minSource
                                   /\ Pack[p].kind = "source"
                                \/ /\ r.config.minHighRisk # 0
                                   /\ HighRiskRatio(r) < r.config.minHighRisk
                                   /\ Slice(p) = "high_risk"}
    \cup ShallowOnly(r)
    \cup OwedTo(r, RequiredFails(r))
    \cup (IF GeneralUnverified(r) THEN UNION {Unresolved(r, i) \cup FailedVerifies(r, i) : i \in Ids(r)} ELSE {})

\* _coverage_followup_blocking_pack_ids
BlockingPacks(r) ==
  IF r.config.auto # "on" THEN {}
  ELSE (IF PartialBlocked(r) THEN PartialBlocking(r) ELSE {})
         \cup (IF QualityFailed(r) THEN QualityBlocking(r) ELSE {})

\* _coverage_followup_policy
FollowUpPriorities(r, blocking) ==
  CASE r.config.auto = "legacy" -> {"p0"}
    [] r.config.auto = "on" -> ThresholdPriorities[r.config.threshold] \cup {Priority(p) : p \in blocking}
    [] OTHER -> {}

FollowsUp(r) ==
  /\ FollowUpPriorities(r, BlockingPacks(r)) # {}
  /\ IF r.config.auto = "on" THEN Blocked(r) ELSE PartialSeverity(r) = "critical"

\* _coverage_followup_depth_reviewer_id: the reviewer that covers the most of the packs.
DepthUpgrader(r, forced, candidates) ==
  LET able     == {i \in candidates : forced \cap r.sel[i].total # {}}
      covers(i) == Cardinality(forced \cap r.sel[i].total)
      most     == {i \in able : \A j \in able : covers(j) <= covers(i)}
      required == {i \in most : Required(r, i)}
  IN IF able = {} THEN {} ELSE {Min(IF required # {} THEN required ELSE most)}

\* _coverage_followup_reviewer_ids; owed are the todos of required reviewers.
FollowUpReviewers(r, blocking, forced, owed) ==
  LET depth    == blocking # {} /\ blocking = forced /\ (r.config.requested \/ owed = {})
      upgrader == DepthUpgrader(r, forced, IF owed = {} THEN Ids(r) ELSE {t.reviewer : t \in owed})
  IN CASE depth /\ upgrader # {} -> upgrader
       [] ~(depth /\ upgrader # {}) /\ ~r.config.requested /\ owed # {}
            /\ blocking \subseteq {t.pack : t \in owed} -> {t.reviewer : t \in owed}
       [] OTHER -> Ids(r)

-----------------------------------------------------------------------------
(* A continued review (continue_review_from_report). *)

\* _limit_continuation_pack_reviews: the cap goes round, required reviewers first.
Shares(r, eligible, cap) ==
  LET before(i, j) == IF Required(r, i) # Required(r, j) THEN Required(r, i) ELSE i < j
      slots == {x \in Ids(r) \X (1..Cardinality(Packs)) : x[2] <= Cardinality(eligible[x[1]])}
      ahead(x) == {y \in slots : y[2] < x[2] \/ (y[2] = x[2] /\ before(y[1], x[1]))}
  IN [i \in Ids(r) |-> Cardinality({x \in slots : x[1] = i /\ Cardinality(ahead(x)) < cap})]

Size(chosen) == MapThenSumSet(LAMBDA i : Cardinality(chosen[i]), DOMAIN chosen)

Limited(r, eligible, cap) ==
  IF Size(eligible) <= cap THEN eligible
  ELSE [i \in Ids(r) |-> Select(eligible[i], Shares(r, eligible, cap)[i], {})]

\* Variant: a pack that was reviewed is not reviewed again, forced or not.
DebtUnforced(r, i, packs, forced) == (packs \cap Matches(r, i)) \ ReviewedBy(r, i)

Debt(r, i, packs, forced) == (packs \cap Matches(r, i)) \ (ReviewedBy(r, i) \ forced)

\* The packs that lack a verification: a finding has no decision, or it failed.
Missing(r, i) == Unresolved(r, i) \cup FailedVerifies(r, i)

\* Those whose findings are carried over to be verified alone; what is reviewed anew
\* is verified with its review.
Carried(r, i, packs, reviewed) == (Missing(r, i) \cap packs) \ reviewed

\* What is left of the cap goes to verifications that lack a decision.
WithVerifications(r, reviewers, packs, eligible, reviews, cap) ==
  LET spent   == Size(reviews)
      pending == [i \in Ids(r) |-> IF i \in reviewers THEN Carried(r, i, packs, reviews[i]) ELSE {}]
  IN [eligible |-> eligible, reviews |-> reviews,
      verifications |-> IF spent >= cap THEN [i \in Ids(r) |-> {}] ELSE Limited(r, pending, cap - spent)]

\* Reviews come first.
Continuation(r, reviewers, packs, eligible, cap) ==
  WithVerifications(r, reviewers, packs, eligible, Limited(r, eligible, cap), cap)

HasWork(c) == \E i \in DOMAIN c.reviews : c.reviews[i] \cup c.verifications[i] # {}

Followed(r, blocking, forced, reviewers) ==
  LET packs == {p \in Packs : /\ Priority(p) \in FollowUpPriorities(r, blocking)
                              /\ blocking = {} \/ p \in blocking}
  IN Continuation(r, reviewers, packs,
                  [i \in Ids(r) |-> IF i \in reviewers THEN Debt(r, i, packs, forced) ELSE {}],
                  r.config.cap)

\* What was read only shallowly is reviewed anew.
FollowUpAgainst(r, blocking) ==
  LET forced == blocking \cap ShallowOnly(r)
      owed   == {t \in Todos(r) : t.pack \in blocking /\ t.reviewer \in RequiredFails(r)}
  IN Followed(r, blocking, forced, FollowUpReviewers(r, blocking, forced, owed))

\* The follow-up is deep, and no budget of the configuration limits it.
FollowUpOf(r) == FollowUpAgainst(r, BlockingPacks(r))

\* Variant: the command of a depth upgrade does not include what was reviewed.
CommandOfAsUnreviewed(r, t) ==
  LET reviewers == IF t.reviewer = 0 THEN Ids(r) ELSE {t.reviewer}
      allowed(i) == Budgeted(Debt(r, i, {t.pack}, {}), r.config.reviewers[i], "deep", {})
  IN Continuation(r, reviewers, {t.pack}, [i \in Ids(r) |-> IF i \in reviewers THEN allowed(i) ELSE {}],
                  Cardinality(Packs) * Len(r.config.reviewers))

CapOf(r, reviewers) == MapThenSumSet(LAMBDA i : r.config.reviewers[i].limits.packs, reviewers)

\* continue_command_for_pack: one pack, deep, within the budgets of the configuration.
CommandOf(r, t) ==
  LET reviewers  == IF t.reviewer = 0 THEN Ids(r) ELSE {t.reviewer}
      upgraded   == IF t.pack \in ShallowOnly(r) THEN {t.pack} ELSE {}
      allowed(i) == Budgeted(Debt(r, i, {t.pack}, upgraded), r.config.reviewers[i], "deep", {})
  IN Continuation(r, reviewers, {t.pack}, [i \in Ids(r) |-> IF i \in reviewers THEN allowed(i) ELSE {}],
                  CapOf(r, reviewers))

\* Selections are rebased on what ran; what was eligible counts as selected even if
\* the cap deferred it.
Continue(continuation) == \E c \in {continuation} :
  /\ sel' = [i \in Ids(Report) |->
              Continued(Rebased(sel[i], Matches(Report, i),
                                {p \in Packs : asg[i][p].depth = "deep"},
                                {p \in Packs : asg[i][p].depth = "shallow"}),
                        Matches(Report, i), c.eligible[i], "deep")]
  /\ Perform(Jobs(c.reviews, "deep") \cup Jobs(c.verifications, "verify"))

-----------------------------------------------------------------------------
(* The gate. *)

FollowUp ==
  /\ pc = "gate" /\ FollowsUp(Report)
  /\ Continue(FollowUpOf(Report))
  /\ pc' = "judge"
  /\ UNCHANGED setup

LeaveAlone ==
  /\ pc = "gate" /\ ~FollowsUp(Report)
  /\ pc' = "judge"
  /\ UNCHANGED <<setup, sel, asg, trouble>>

Judge ==
  /\ pc = "judge"
  /\ pc' = IF Blocked(Report) THEN "blocked" ELSE "passed"
  /\ UNCHANGED <<setup, sel, asg, trouble>>

\* The report of a push that coverage blocked is resumed by the next one.
PushAgain ==
  /\ pc = "blocked"
  /\ pc' = "gate"
  /\ UNCHANGED <<setup, sel, asg, trouble>>

\* The author runs the command that a todo suggests.
RunTodo ==
  /\ pc = "blocked"
  /\ \E t \in Todos(Report) : Continue(CommandOf(Report, t))
  /\ UNCHANGED <<setup, pc>>

Done == pc = "passed" /\ UNCHANGED vars

Next == Review \/ FollowUp \/ LeaveAlone \/ Judge \/ PushAgain \/ RunTodo \/ Done

Spec == Init /\ [][Next]_vars

\* Every step but RunTodo goes on to another phase, and until the gate passes one of
\* them is possible: the author pushes until it does, and need not run a command.
GoOn == pc # "passed" /\ pc' \in {"gate", "judge", "passed", "blocked"} \ {pc}

FairSpec == Spec /\ WF_pc(GoOn)

-----------------------------------------------------------------------------
(* Properties. *)

Reviewable(p, d) == Pack[p].chars[d] <= MaxPackChars

\* A review stays within the limits of each reviewer, both passes together: packs,
\* deep packs, tokens and the size of a prompt; and where the cap leaves a risky pack
\* out of the deep pass, no pack of a lower priority is read deeply in its place
\* (plan_llm_context_selection).
PlanWithinLimits ==
  [][pc = "plan" =>
       \A i \in Ids(Report) :
         LET limits == LimitsOf(setup.reviewers[i])
             s      == sel'[i]
         IN /\ Cardinality(Selected(s)) <= limits.packs
            /\ Cardinality(s.deep) <= limits.deep
            /\ Tokens(s.deep, "deep") + Tokens(s.shallow, "shallow") <= limits.tokens
            /\ \A p \in s.deep : Reviewable(p, "deep")
            /\ \A p \in s.shallow : Reviewable(p, "shallow")
            /\ \A p \in s.total \ Selected(s), q \in s.deep :
                 s.reasons[p] = {"cap"} /\ Reviewable(p, "deep") /\ Priority(p) = "p0" => Priority(q) = "p0"]_vars

Served(p) == \E i \in Ids(Report) : asg[i][p].status = "ok"
ReadDeeply(p) == \E i \in Ids(Report) : asg[i][p].status = "ok" /\ asg[i][p].depth = "deep"
Answered(i, p) == ~(setup.reviewers[i].verify /\ asg[i][p].unresolved)

\* "complete" is said only of a report in which every reviewer has read every pack that
\* it matches and has decided what it found, and somebody has read each risky pack
\* deeply; and a gate that fails on coverage lets a push go only when the risky packs
\* are read and no required reviewer owes anything of what was selected for it.
VerdictMeansCovered ==
  /\ pc # "plan" /\ Completion(Report) = "complete" =>
       /\ \A i \in Ids(Report) : \A p \in Matches(Report, i) : asg[i][p].status = "ok" /\ Answered(i, p)
       /\ \A p \in Scoped(Report) : Served(p) /\ (HighRisk(p) => ReadDeeply(p))
  /\ pc = "passed" /\ (setup.quality \/ setup.threshold # "none") =>
       /\ \A p \in Scoped(Report) : HighRisk(p) => Served(p)
       /\ \A i \in Ids(Report) : setup.named /\ setup.reviewers[i].required =>
            /\ \A p \in Selected(sel[i]) : asg[i][p].status = "ok" /\ Answered(i, p)
            /\ Matches(Report, i) # {} => Selected(sel[i]) # {}

AllMatched == Scoped(Report) = UNION {Matches(Report, i) : i \in Ids(Report)}

\* Debt is never a dead end: when some reviewer matches each pack, a follow-up of a
\* blocked gate finds a call to make, and so does the command of every todo whose pack
\* fits the budgets of the reviewer it names.
DebtHasWork ==
  pc \in {"gate", "blocked"} /\ AllMatched =>
    /\ setup.auto = "on" /\ Blocked(Report) => FollowsUp(Report) /\ HasWork(FollowUpOf(Report))
    /\ \A t \in Todos(Report) :
         \/ t.reviewer # 0 /\ Budgeted({t.pack}, setup.reviewers[t.reviewer], "deep", {}) = {}
         \/ HasWork(CommandOf(Report, t))

\* With the follow-up on, pushing again is enough: coverage stops blocking.
CoverageClears == AllMatched /\ setup.auto = "on" ~> pc = "passed"
=============================================================================
