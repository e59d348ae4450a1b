--------------------------- MODULE CoverageDrain ---------------------------
(***************************************************************************)
(* `apex-ray review --continue-from R.json --until-complete`: an archived  *)
(* report is continued in bounded batches until the reviewers of one scope *)
(* have no debt left (pipeline/coverage.py), each batch planned, run and   *)
(* merged by continue_review_from_report (pipeline/runner.py) and written  *)
(* to the JSON report before the next one (cli/main.py).                   *)
(*                                                                         *)
(* Debt has three kinds: an assignment (a reviewer and a pack it matches)  *)
(* without a successful review, a finding whose verification is missing,   *)
(* and a high-risk pack that only shallow passes have read.                *)
(*                                                                         *)
(* The process may crash at any step, the repository may move away from    *)
(* the reviewed snapshot and back, and the developer may change a          *)
(* reviewer's settings between two runs.  Findings are abstracted to one   *)
(* per assignment; which packs of equal standing a batch takes is left     *)
(* open (the code sorts them by risk).                                     *)
(***************************************************************************)
EXTENDS Naturals, Integers, Sequences, FiniteSets

CONSTANTS
  Packs,        \* the context packs of the report
  HighRisk,     \* those of high risk
  Reviewers,    \* the enabled reviewers, numbered in the order of their ids
  Matches,      \* Matches[r]: the packs reviewer r is configured for
  Scope,        \* the reviewers to complete, in the order they were requested
  Required,     \* the reviewers that are required
  Verifies,     \* the reviewers whose findings are verified
  FirstReviews, \* what the first run may have left of an assignment
  BatchSize,    \* --followup-max-pack-reviews
  MaxBatches,   \* --max-followup-passes
  MaxTrouble    \* bound: failed outcomes, crashes, moves and edits in a behaviour

Reviews   == {"none", "failed", "shallow", "deep"}
Decisions == {"none", "decided", "unresolved"}
Settings  == [review : BOOLEAN, verify : BOOLEAN]
Verdicts  == {"none", "complete", "no_eligible_work", "no_progress", "max_batches"}

(* The latest review and decision of an assignment, and the settings under *)
(* which each was made (reduce_llm_pack_run_states, active_verifications). *)
Assignment == [review : Reviews, decision : Decisions,
               reviewedUnder : BOOLEAN, decidedUnder : BOOLEAN]
Untouched  == [review |-> "none", decision |-> "none",
               reviewedUnder |-> FALSE, decidedUnder |-> FALSE]

Pairs    == Reviewers \X Packs
InScope  == {Scope[i] : i \in 1..Len(Scope)}
Matching == {a \in Pairs : a[2] \in Matches[a[1]]}
Wanted   == {a \in Matching : a[1] \in InScope}

ASSUME DrainAssumption ==
  /\ IsFiniteSet(Packs)
  /\ IsFiniteSet(Reviewers)
  /\ Reviewers \subseteq Nat
  /\ HighRisk \subseteq Packs
  /\ Matches \in [Reviewers -> SUBSET Packs]
  /\ Scope \in Seq(Reviewers)
  /\ Len(Scope) > 0
  /\ FirstReviews \subseteq Assignment
  /\ \A a \in FirstReviews : ~a.reviewedUnder /\ ~a.decidedUnder
  /\ BatchSize \in Nat \ {0}
  /\ MaxBatches \in Nat \ {0}
  /\ MaxTrouble \in Nat

VARIABLES
  config,   \* each reviewer's current settings
  saved,    \* the JSON report on disk: assignments, settings, verdict
  report,   \* the report in memory
  prior,    \* the assignments when the current batch was planned
  plan,     \* the assignments this batch reviews
  retries,  \* the assignments of which it only verifies the findings
  pc,       \* where the process is
  batch,    \* the number of the batch
  stop,     \* why the loop ended
  moved,    \* the repository is not at the reviewed snapshot
  trouble   \* how much went wrong so far

vars == <<config, saved, report, prior, plan, retries, pc, batch, stop, moved, trouble>>

-----------------------------------------------------------------------------
(* What a report says of coverage; g maps assignments to their state. *)

IsReviewed(g, a) == g[a].review \in {"shallow", "deep"}

\* The packs somebody reviewed; of high risk, those that nobody reviewed deeply.
ReviewedPacks(g) == {p \in Packs : \E a \in Matching : a[2] = p /\ IsReviewed(g, a)}

ShallowOnly(g) ==
  {p \in HighRisk : /\ \E a \in Matching : a[2] = p /\ g[a].review = "shallow"
                    /\ \A a \in Matching : a[2] = p => g[a].review # "deep"}

ScopePacks == {a[2] : a \in Wanted}

Unreviewed(g) == {a \in Wanted : ~IsReviewed(g, a)}
Unverified(g) == {a \in Wanted : g[a].decision = "unresolved"}

Complete(g) ==
  /\ Unreviewed(g) = {}
  /\ Unverified(g) = {}
  /\ ShallowOnly(g) \cap ScopePacks = {}

Pending(g) ==
  (ShallowOnly(g) \cap ScopePacks)
    \cup {a[2] : a \in Unreviewed(g)} \cup {a[2] : a \in Unverified(g)}

\* Compared from left to right: packs, assignments, depth, and what is pending.
ProgressKey(g) ==
  << Cardinality(ReviewedPacks(g)),
     Cardinality(Wanted \ Unreviewed(g)),
     Cardinality(ReviewedPacks(g) \cap HighRisk) - Cardinality(ShallowOnly(g)),
     0 - Cardinality(Pending(g)) >>

Exceeds(k, l) == \E i \in 1..Len(k) : k[i] > l[i] /\ \A j \in 1..(i - 1) : k[j] = l[j]

-----------------------------------------------------------------------------
(* Planning a batch. *)

\* Round-robin shares of the batch: required reviewers first, then by id.
GoesBefore(o, r) ==
  IF (o \in Required) # (r \in Required) THEN o \in Required ELSE o < r

\* The subsets of a set that use a cap as far as they can.
Capped(set, size) ==
  {s \in SUBSET set :
     Cardinality(s) = IF Cardinality(set) < size THEN Cardinality(set) ELSE size}

Share(s, r) == Cardinality({a \in s : a[1] = r})

Shared(eligible, size) ==
  {s \in Capped(eligible, size) :
     \A o, r \in InScope :
       Share(s, r) < Share(eligible, r) =>
         Share(s, o) <= Share(s, r) + (IF GoesBefore(o, r) THEN 1 ELSE 0)}

\* Variant: every pending pack is reviewed again.
ForcedPending(g) == Pending(g)

Forced(g) == Pending(g) \cap ShallowOnly(g)

\* Packs that lack nothing but a deep review: every reviewer of the scope has read them.
OnlyDepth(g) == {p \in Forced(g) : \A a \in Wanted : a[2] = p => IsReviewed(g, a)}

\* The reviewer of the scope that matches pack p first.
FirstToMatch(p) ==
  {Scope[i] : i \in {k \in 1..Len(Scope) : /\ p \in Matches[Scope[k]]
                                           /\ \A j \in 1..(k - 1) : p \notin Matches[Scope[j]]}}

\* Depth-only debt is given to one reviewer, in a batch of its own.
DepthUpgrades(g) ==
  IF Len(Scope) < 2 THEN {}
  ELSE UNION {{{r} \X ps : ps \in Capped(Forced(g) \cap Matches[r], BatchSize)} :
                r \in UNION {FirstToMatch(p) : p \in OnlyDepth(g)}}

Eligible(g) == {a \in Wanted : a[2] \in Pending(g) /\ (~IsReviewed(g, a) \/ a[2] \in Forced(g))}

ReviewPlans(g) ==
  IF DepthUpgrades(g) # {} THEN DepthUpgrades(g) ELSE Shared(Eligible(g), BatchSize)

\* Variant: verifications have a cap of their own.
RetryPlansUncapped(g, chosen) == Shared(Unverified(g) \ chosen, BatchSize)

\* Variant: a finding without a decision waits for the next review of its pack.
RetryPlansNever(g, chosen) == {{}}

\* What is left of the cap goes to findings whose verification is missing.
RetryPlans(g, chosen) ==
  IF DepthUpgrades(g) # {} THEN {{}}
  ELSE Shared(Unverified(g) \ chosen, BatchSize - Cardinality(chosen))

-----------------------------------------------------------------------------
(* The outcomes of an assignment, under the reviewer's settings c. *)

FailedReview(old)   == [old EXCEPT !.review = "failed", !.reviewedUnder = FALSE]
CleanReview(c)      == [Untouched EXCEPT !.review = "deep", !.reviewedUnder = c.review]
VerifiedReview(c)   == [review |-> "deep", decision |-> "decided",
                        reviewedUnder |-> c.review, decidedUnder |-> c.verify]
UnverifiedReview(c) == [CleanReview(c) EXCEPT !.decision = "unresolved"]

ReviewOutcomes(a, old, c) ==
  {FailedReview(old), CleanReview(c)}
    \cup (IF a[1] \in Verifies THEN {VerifiedReview(c), UnverifiedReview(c)} ELSE {})

RetryOutcomes(old, c) ==
  {[old EXCEPT !.decision = "decided", !.decidedUnder = c.verify], old}

IsSetback(s) == s.review = "failed" \/ s.decision = "unresolved"

\* The settings of a reviewer changed: its reviews, or only its decisions, are reset.
Rebased(s, was, now) ==
  LET redecide == [s EXCEPT !.decision = IF @ = "decided" THEN "unresolved" ELSE @,
                            !.decidedUnder = FALSE]
  IN  CASE was.review # now.review ->
             [redecide EXCEPT !.review = "none", !.reviewedUnder = FALSE]
        [] was.review = now.review /\ was.verify # now.verify -> redecide
        [] OTHER -> s

\* Variant: the report takes over the new settings and keeps what it has.
Relabelled(r) == [asg |-> r.asg, config |-> config]

RebasedReport(r) ==
  [asg |-> [a \in Pairs |-> Rebased(r.asg[a], r.config[a[1]], config[a[1]])],
   config |-> config]

-----------------------------------------------------------------------------
Init ==
  /\ config = [r \in Reviewers |-> [review |-> FALSE, verify |-> FALSE]]
  /\ \E g \in [Matching -> FirstReviews] :
       /\ \A a \in Matching : a[1] \notin Verifies => g[a].decision = "none"
       /\ saved = [asg |-> [a \in Pairs |-> IF a \in Matching THEN g[a] ELSE Untouched],
                config |-> config, verdict |-> "none"]
  /\ report = [asg |-> saved.asg, config |-> config]
  /\ prior = saved.asg
  /\ plan = {} /\ retries = {}
  /\ pc = "down"
  /\ batch = 0
  /\ stop = "none"
  /\ moved = FALSE
  /\ trouble = 0

\* Leave the loop with a reason; the final report is still to be written.
Leave(reason) == pc' = "final" /\ stop' = reason

(* --continue-from: the saved report is read and brought to the settings. *)
Load ==
  /\ pc = "down" /\ ~moved
  /\ report' = RebasedReport(saved)
  /\ batch' = 1
  /\ IF Complete(report'.asg) THEN Leave("complete") ELSE pc' = "plan" /\ stop' = "none"
  /\ prior' = report'.asg
  /\ UNCHANGED <<config, saved, plan, retries, moved, trouble>>

(* The head of the loop: what is pending, and what of it this batch takes. *)
Plan ==
  /\ pc = "plan" /\ ~moved
  /\ IF Pending(report.asg) = {}
       THEN Leave("no_eligible_work") /\ UNCHANGED <<plan, retries>>
       ELSE /\ pc' = "run"
            /\ plan' \in ReviewPlans(report.asg)
            /\ retries' \in RetryPlans(report.asg, plan')
            /\ UNCHANGED stop
  /\ prior' = report.asg
  /\ UNCHANGED <<config, saved, report, batch, moved, trouble>>

(* The provider is called for every planned assignment; each may fail. *)
RunBatch ==
  /\ pc = "run"
  /\ \E res \in [plan -> Assignment], ver \in [retries -> Assignment] :
       /\ \A a \in plan : res[a] \in ReviewOutcomes(a, report.asg[a], config[a[1]])
       /\ \A a \in retries : ver[a] \in RetryOutcomes(report.asg[a], config[a[1]])
       /\ report' = [report EXCEPT !.asg = [a \in Pairs |->
                       IF a \in plan THEN res[a] ELSE IF a \in retries THEN ver[a] ELSE @[a]]]
       /\ trouble' = trouble + Cardinality({a \in plan : IsSetback(res[a])})
                             + Cardinality({a \in retries : IsSetback(ver[a])})
       /\ trouble' <= MaxTrouble
  /\ pc' = "settle"
  /\ UNCHANGED <<config, saved, prior, plan, retries, batch, stop, moved>>

(* on_batch writes the report without a verdict; then the loop goes on or ends. *)
Settle ==
  /\ pc = "settle" /\ ~moved
  /\ saved' = [asg |-> report.asg, config |-> report.config, verdict |-> "none"]
  /\ plan' = {} /\ retries' = {}
  /\ IF Complete(report.asg) THEN Leave("complete") /\ UNCHANGED batch
     ELSE IF ~Exceeds(ProgressKey(report.asg), ProgressKey(prior))
       THEN Leave("no_progress") /\ UNCHANGED batch
     ELSE IF batch = MaxBatches THEN Leave("max_batches") /\ UNCHANGED batch
     ELSE pc' = "plan" /\ batch' = batch + 1 /\ UNCHANGED stop
  /\ UNCHANGED <<config, report, prior, moved, trouble>>

(* The final report, with the verdict. *)
Final ==
  /\ pc = "final" /\ ~moved
  /\ saved' = [asg |-> report.asg, config |-> report.config, verdict |-> stop]
  /\ pc' = "down"
  /\ UNCHANGED <<config, report, prior, plan, retries, batch, stop, moved, trouble>>

(* The snapshot check before a batch, after it, or before the final write fails. *)
Refuse ==
  /\ pc \in {"plan", "settle", "final"} /\ moved
  /\ pc' = "down"
  /\ plan' = {} /\ retries' = {}
  /\ UNCHANGED <<config, saved, report, prior, batch, stop, moved, trouble>>

-----------------------------------------------------------------------------
(* The environment. *)

Bother == trouble < MaxTrouble /\ trouble' = trouble + 1

Crash ==
  /\ pc # "down" /\ Bother
  /\ pc' = "down"
  /\ plan' = {} /\ retries' = {}
  /\ UNCHANGED <<config, saved, report, prior, batch, stop, moved>>

Move ==
  /\ ~moved /\ Bother
  /\ moved' = TRUE
  /\ UNCHANGED <<config, saved, report, prior, plan, retries, pc, batch, stop>>

MoveBack ==
  /\ moved
  /\ moved' = FALSE
  /\ UNCHANGED <<config, saved, report, prior, plan, retries, pc, batch, stop, trouble>>

EditReview(r) ==
  /\ pc = "down" /\ Bother
  /\ config' = [config EXCEPT ![r].review = ~@]
  /\ UNCHANGED <<saved, report, prior, plan, retries, pc, batch, stop, moved>>

EditVerify(r) ==
  /\ pc = "down" /\ Bother
  /\ config' = [config EXCEPT ![r].verify = ~@]
  /\ UNCHANGED <<saved, report, prior, plan, retries, pc, batch, stop, moved>>

Process == Load \/ Plan \/ RunBatch \/ Settle \/ Final \/ Refuse

Next == \/ Process
        \/ Crash
        \/ Move
        \/ MoveBack
        \/ \E r \in Reviewers : EditReview(r) \/ EditVerify(r)

Spec == Init /\ [][Next]_vars

(* A started process goes on, a stopped one is started again, and the      *)
(* developer comes back to the reviewed snapshot.                          *)
FairSpec == Spec /\ WF_vars(Process) /\ WF_vars(MoveBack)

-----------------------------------------------------------------------------
(* Properties. *)

States == [Pairs -> Assignment]

(* Every variable has its type. *)
TypeOK ==
  /\ config \in [Reviewers -> Settings]
  /\ saved \in [asg : States, config : [Reviewers -> Settings], verdict : Verdicts]
  /\ report \in [asg : States, config : [Reviewers -> Settings]]
  /\ prior \in States
  /\ plan \subseteq Wanted
  /\ retries \subseteq Wanted
  /\ pc \in {"down", "plan", "run", "settle", "final"}
  /\ batch \in 0..MaxBatches
  /\ stop \in Verdicts
  /\ moved \in BOOLEAN
  /\ trouble \in 0..MaxTrouble

(* The verdict a report carries is true of that very report: "complete" is *)
(* never left over from an earlier run, and no review or decision made     *)
(* under other settings than the report's counts for it.                   *)
VerdictIsTrue ==
  saved.verdict = "complete" =>
    /\ \A a \in Wanted :
         LET s == saved.asg[a]
             c == saved.config[a[1]]
         IN  /\ s.review \in {"shallow", "deep"} /\ s.reviewedUnder = c.review
             /\ s.decision # "unresolved"
             /\ s.decision = "decided" => s.decidedUnder = c.verify
    /\ \A p \in HighRisk \cap ScopePacks :
         \E a \in Matching : a[2] = p /\ saved.asg[a].review = "deep"

(* A deep review that reached the disk is not paid again, after a crash or *)
(* a restart either, unless the settings of its reviewer changed.          *)
DeepReviewIsKept ==
  pc = "run" =>
    \A a \in plan : saved.asg[a].review = "deep" =>
                      saved.config[a[1]].review # config[a[1]].review

(* An incomplete scope always has a batch: planned work is never empty,    *)
(* fits the cap with its reviews and verifications together, and           *)
(* "no_eligible_work" is never the reason to stop.  A pack that lacks only *)
(* depth is assigned to one of its reviewers, not to each of them.         *)
WorkIsFound ==
  /\ stop # "no_eligible_work"
  /\ pc = "run" => /\ plan \cup retries # {}
                   /\ plan \cap retries = {}
                   /\ Cardinality(plan) + Cardinality(retries) <= BatchSize
                   /\ \A p \in OnlyDepth(report.asg) : Cardinality({a \in plan : a[2] = p}) <= 1

(* Once nothing goes wrong any more, repeated runs end with a complete     *)
(* report, whatever order of failures, crashes and edits came before.      *)
DrainCompletes == <>[](saved.verdict = "complete")

=============================================================================
