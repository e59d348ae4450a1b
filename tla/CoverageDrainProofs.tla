------------------------ MODULE CoverageDrainProofs ------------------------
(* Theorems about coverage completion, for every set of packs, reviewers   *)
(* and scope, every cap and every number of mishaps.                       *)
EXTENDS CoverageDrain, FiniteSetTheorems, WellFoundedInduction, TLAPS

\* The assignments are finitely many, and the wanted ones are assignments.
LEMMA WantedFinite == Wanted \subseteq Matching /\ Matching \subseteq Pairs /\ IsFiniteSet(Pairs)
<1>1. Wanted \subseteq Matching
  BY DEF Wanted
<1>2. Matching \subseteq Pairs
  BY DEF Matching
<1>3. IsFiniteSet(Pairs)
  BY DrainAssumption, FS_Product DEF Pairs
<1> QED
  BY <1>1, <1>2, <1>3

LEMMA ScopeIsOfReviewers == InScope \subseteq Reviewers
BY DrainAssumption DEF InScope

\* A batch reviews wanted assignments only, and none of them has a deep review.
LEMMA UpgradesAreForced ==
    ASSUME NEW g, NEW c \in DepthUpgrades(g), NEW a \in c
    PROVE  a \in Wanted /\ a[2] \in Forced(g)
<1>1. PICK r \in UNION {FirstToMatch(p) : p \in OnlyDepth(g)} :
        \E ps \in Capped(Forced(g) \cap Matches[r], BatchSize) : c = {r} \X ps
  BY DEF DepthUpgrades
<1>2. PICK ps \in Capped(Forced(g) \cap Matches[r], BatchSize) : c = {r} \X ps
  BY <1>1
<1>3. r \in InScope
  BY <1>1 DEF FirstToMatch, InScope
<1>4. r \in Reviewers
  BY <1>3, ScopeIsOfReviewers
<1>5. ps \subseteq Forced(g) \cap Matches[r]
  BY <1>2 DEF Capped
<1>6. Matches[r] \subseteq Packs
  BY <1>4, DrainAssumption
<1>7. a[1] = r /\ a[2] \in ps /\ a = <<a[1], a[2]>>
  BY <1>2
<1>8. a \in Pairs
  BY <1>4, <1>5, <1>6, <1>7 DEF Pairs
<1> QED
  BY <1>3, <1>5, <1>7, <1>8 DEF Wanted, Matching

LEMMA PlanIsWanted ==
    ASSUME NEW g, NEW c \in ReviewPlans(g), NEW a \in c
    PROVE  a \in Wanted /\ g[a].review # "deep"
<1>1. a \in Wanted /\ (~IsReviewed(g, a) \/ a[2] \in Forced(g))
  <2>1. CASE DepthUpgrades(g) # {}
    <3>1. c \in DepthUpgrades(g)
      BY <2>1 DEF ReviewPlans
    <3> QED
      BY <3>1, UpgradesAreForced
  <2>2. CASE DepthUpgrades(g) = {}
    <3>1. c \in Shared(Eligible(g), BatchSize)
      BY <2>2 DEF ReviewPlans
    <3>2. c \subseteq Eligible(g)
      BY <3>1 DEF Shared, Capped
    <3> QED
      BY <3>2 DEF Eligible
  <2> QED
    BY <2>1, <2>2
<1>2. CASE ~IsReviewed(g, a)
  BY <1>1, <1>2 DEF IsReviewed
<1>3. CASE a[2] \in Forced(g)
  <2>1. a[2] \in ShallowOnly(g)
    BY <1>3 DEF Forced
  <2>2. a \in Matching
    BY <1>1, WantedFinite
  <2> QED
    BY <1>1, <2>1, <2>2 DEF ShallowOnly
<1> QED
  BY <1>1, <1>2, <1>3

LEMMA RetriesAreWanted ==
    ASSUME NEW g, NEW chosen, NEW c \in RetryPlans(g, chosen)
    PROVE  c \subseteq Wanted
<1>1. CASE DepthUpgrades(g) # {}
  BY <1>1 DEF RetryPlans
<1>2. CASE DepthUpgrades(g) = {}
  <2>1. c \in Shared(Unverified(g) \ chosen, BatchSize - Cardinality(chosen))
    BY <1>2 DEF RetryPlans
  <2>2. c \subseteq Unverified(g)
    BY <2>1 DEF Shared, Capped
  <2> QED
    BY <2>2 DEF Unverified
<1> QED
  BY <1>1, <1>2

-----------------------------------------------------------------------------
(* A change of settings and the outcomes of a batch, on one assignment. *)

Honest(s, c) ==
  /\ s.review \in {"shallow", "deep"} => s.reviewedUnder = c.review
  /\ s.decision = "decided" => s.decidedUnder = c.verify

\* After a reset nothing counts that was made under other settings; without a
\* change of a reviewer's review settings, its reviews stay.
LEMMA RebasedIsHonest ==
    ASSUME NEW s \in Assignment, NEW was \in Settings, NEW now \in Settings
    PROVE  /\ Rebased(s, was, now) \in Assignment
           /\ Honest(s, was) => Honest(Rebased(s, was, now), now)
           /\ was.review = now.review => Rebased(s, was, now).review = s.review
           /\ was = now => Rebased(s, was, now) = s
<1> DEFINE redecide == [s EXCEPT !.decision = IF @ = "decided" THEN "unresolved" ELSE @,
                                 !.decidedUnder = FALSE]
<1>1. /\ redecide \in Assignment
      /\ redecide.decision # "decided"
      /\ redecide.review = s.review
      /\ redecide.reviewedUnder = s.reviewedUnder
  BY DEF Assignment, Reviews, Decisions
<1>2. CASE was.review # now.review
  <2>1. Rebased(s, was, now) = [redecide EXCEPT !.review = "none", !.reviewedUnder = FALSE]
    BY <1>2 DEF Rebased
  <2>2. /\ [redecide EXCEPT !.review = "none", !.reviewedUnder = FALSE] \in Assignment
        /\ [redecide EXCEPT !.review = "none", !.reviewedUnder = FALSE].review = "none"
        /\ [redecide EXCEPT !.review = "none", !.reviewedUnder = FALSE].decision # "decided"
    BY DEF Assignment, Reviews, Decisions
  <2> QED
    BY <1>2, <2>1, <2>2 DEF Honest
<1>3. CASE was.review = now.review /\ was.verify # now.verify
  <2>1. Rebased(s, was, now) = redecide
    BY <1>3 DEF Rebased
  <2> QED
    BY <1>1, <1>3, <2>1 DEF Honest
<1>4. CASE was.review = now.review /\ was.verify = now.verify
  <2>1. Rebased(s, was, now) = s
    BY <1>4 DEF Rebased
  <2> QED
    BY <1>4, <2>1 DEF Honest
<1> QED
  BY <1>2, <1>3, <1>4

LEMMA OutcomesAreHonest ==
    ASSUME NEW a, NEW old \in Assignment, NEW c \in Settings, Honest(old, c)
    PROVE  /\ \A s \in ReviewOutcomes(a, old, c) : s \in Assignment /\ Honest(s, c)
           /\ \A s \in RetryOutcomes(old, c) : s \in Assignment /\ Honest(s, c)
<1>1. c.review \in BOOLEAN /\ c.verify \in BOOLEAN
  BY DEF Settings
<1>2. FailedReview(old) \in Assignment /\ Honest(FailedReview(old), c)
  BY DEF FailedReview, Assignment, Reviews, Decisions, Honest
<1>3. CleanReview(c) \in Assignment /\ Honest(CleanReview(c), c)
  BY <1>1 DEF CleanReview, Untouched, Assignment, Reviews, Decisions, Honest
<1>4. VerifiedReview(c) \in Assignment /\ Honest(VerifiedReview(c), c)
  BY <1>1 DEF VerifiedReview, Assignment, Reviews, Decisions, Honest
<1>5. UnverifiedReview(c) \in Assignment /\ Honest(UnverifiedReview(c), c)
  BY <1>1 DEF UnverifiedReview, CleanReview, Untouched, Assignment, Reviews, Decisions, Honest
<1>6. \A s \in RetryOutcomes(old, c) : s \in Assignment /\ Honest(s, c)
  BY <1>1 DEF RetryOutcomes, Assignment, Reviews, Decisions, Honest
<1> QED
  BY <1>2, <1>3, <1>4, <1>5, <1>6 DEF ReviewOutcomes

\* A report brought to the current settings is typed and honest; it is the
\* same report when the settings are the same.
LEMMA RebasedReportIsHonest ==
    ASSUME config \in [Reviewers -> Settings],
           NEW asg \in States, NEW cfg \in [Reviewers -> Settings],
           NEW r, r.asg = asg, r.config = cfg
    PROVE  /\ RebasedReport(r).asg \in States
           /\ RebasedReport(r).config = config
           /\ RebasedReport(r) = [asg |-> RebasedReport(r).asg, config |-> RebasedReport(r).config]
           /\ \A a \in Pairs : Honest(asg[a], cfg[a[1]]) =>
                                 Honest(RebasedReport(r).asg[a], config[a[1]])
           /\ \A a \in Pairs : cfg[a[1]].review = config[a[1]].review =>
                                 RebasedReport(r).asg[a].review = asg[a].review
           /\ cfg = config => RebasedReport(r).asg = asg
<1> DEFINE new(a) == Rebased(asg[a], cfg[a[1]], config[a[1]])
<1>1. /\ RebasedReport(r).asg = [a \in Pairs |-> new(a)]
      /\ RebasedReport(r).config = config
      /\ RebasedReport(r) = [asg |-> RebasedReport(r).asg, config |-> RebasedReport(r).config]
  BY DEF RebasedReport
<1>2. ASSUME NEW a \in Pairs
      PROVE  asg[a] \in Assignment /\ cfg[a[1]] \in Settings /\ config[a[1]] \in Settings
  <2>1. a[1] \in Reviewers
    BY DEF Pairs
  <2> QED
    BY <2>1 DEF States
<1>3. ASSUME NEW a \in Pairs
      PROVE  /\ new(a) \in Assignment
             /\ Honest(asg[a], cfg[a[1]]) => Honest(new(a), config[a[1]])
             /\ cfg[a[1]].review = config[a[1]].review => new(a).review = asg[a].review
             /\ cfg[a[1]] = config[a[1]] => new(a) = asg[a]
  BY <1>2, RebasedIsHonest
<1> HIDE DEF new
<1>4. RebasedReport(r).asg \in States
  BY <1>1, <1>3 DEF States
<1>5. cfg = config => RebasedReport(r).asg = asg
  BY <1>1, <1>3 DEF States
<1> QED
  BY <1>1, <1>3, <1>4, <1>5

-----------------------------------------------------------------------------
(* The invariant: the report on disk and the one in memory are honest; in  *)
(* a batch, the one in memory is the saved one brought to the settings.    *)

DrainInv ==
  /\ TypeOK
  /\ \A a \in Pairs : Honest(saved.asg[a], saved.config[a[1]])
  /\ pc # "down" => /\ report.config = config
                    /\ \A a \in Pairs : Honest(report.asg[a], config[a[1]])
  /\ pc \in {"plan", "run"} => report.asg = RebasedReport(saved).asg
  /\ pc = "run" => \A a \in plan : report.asg[a].review # "deep"
  /\ pc = "final" /\ stop = "complete" => Complete(report.asg)
  /\ saved.verdict = "complete" => Complete(saved.asg)

ReportType == [asg : States, config : [Reviewers -> Settings]]
SavedType  == [asg : States, config : [Reviewers -> Settings], verdict : Verdicts]

LEMMA ReportFields ==
    /\ \A r \in ReportType : r.asg \in States /\ r.config \in [Reviewers -> Settings]
    /\ \A r \in SavedType : /\ r.asg \in States /\ r.config \in [Reviewers -> Settings]
                             /\ r.verdict \in Verdicts
    /\ \A g \in States, c \in [Reviewers -> Settings] : [asg |-> g, config |-> c] \in ReportType
    /\ \A g \in States, c \in [Reviewers -> Settings], v \in Verdicts :
         [asg |-> g, config |-> c, verdict |-> v] \in SavedType
BY DEF ReportType, SavedType

LEMMA TypeOfReports == TypeOK => saved \in SavedType /\ report \in ReportType
BY DEF TypeOK, SavedType, ReportType

LEMMA InitInv == Init => DrainInv
<1> SUFFICES ASSUME Init PROVE DrainInv
  OBVIOUS
<1>1. config \in [Reviewers -> Settings] /\ \A r \in Reviewers : config[r] = [review |-> FALSE, verify |-> FALSE]
  BY DEF Init, Settings
<1>2. PICK g \in [Matching -> FirstReviews] :
        saved = [asg |-> [a \in Pairs |-> IF a \in Matching THEN g[a] ELSE Untouched],
                 config |-> config, verdict |-> "none"]
  BY DEF Init
<1> DEFINE first(a) == IF a \in Matching THEN g[a] ELSE Untouched
<1>3. Untouched \in Assignment /\ ~Untouched.reviewedUnder /\ ~Untouched.decidedUnder
  BY DEF Untouched, Assignment, Reviews, Decisions
<1>4. \A a \in Pairs : first(a) \in Assignment /\ ~first(a).reviewedUnder /\ ~first(a).decidedUnder
  BY <1>3, DrainAssumption
<1>5. saved.asg = [a \in Pairs |-> first(a)] /\ saved.config = config /\ saved.verdict = "none"
  BY <1>2
<1> HIDE DEF first
<1>6. saved.asg \in States
  BY <1>4, <1>5 DEF States
<1>7. saved \in SavedType /\ report \in ReportType
  <2>1. "none" \in Verdicts
    BY DEF Verdicts
  <2>2. saved = [asg |-> saved.asg, config |-> config, verdict |-> "none"]
    BY <1>2
  <2>3. report = [asg |-> saved.asg, config |-> config]
    BY DEF Init
  <2> QED
    BY <1>1, <1>6, <2>1, <2>2, <2>3, ReportFields
<1>8. TypeOK
  <2>1. prior \in States
    BY <1>6 DEF Init
  <2>2. trouble \in 0..MaxTrouble /\ batch \in 0..MaxBatches
    BY DrainAssumption DEF Init
  <2> QED
    BY <1>1, <1>7, <2>1, <2>2 DEF Init, TypeOK, SavedType, ReportType, Verdicts
<1>9. \A a \in Pairs : Honest(saved.asg[a], saved.config[a[1]])
  <2> SUFFICES ASSUME NEW a \in Pairs PROVE Honest(first(a), config[a[1]])
    BY <1>5
  <2>1. a[1] \in Reviewers
    BY DEF Pairs
  <2>2. config[a[1]].review = FALSE /\ config[a[1]].verify = FALSE
    BY <1>1, <2>1
  <2>3. first(a).reviewedUnder = FALSE /\ first(a).decidedUnder = FALSE
    BY <1>4 DEF Assignment
  <2> QED
    BY <2>2, <2>3 DEF Honest
<1> QED
  BY <1>5, <1>8, <1>9 DEF DrainInv, Init

-----------------------------------------------------------------------------
(* Every action preserves the invariant. *)

LEMMA LoadInv == DrainInv /\ Load => DrainInv'
<1> SUFFICES ASSUME DrainInv, Load PROVE DrainInv'
  OBVIOUS
<1>1. TypeOK /\ saved \in SavedType
  BY TypeOfReports DEF DrainInv
<1>2. /\ config \in [Reviewers -> Settings]
      /\ saved.asg \in States /\ saved.config \in [Reviewers -> Settings]
  BY <1>1, ReportFields DEF TypeOK
<1>3. /\ report' = RebasedReport(saved)
      /\ UNCHANGED <<config, saved, plan, retries, moved, trouble>>
      /\ batch' = 1 /\ prior' = report'.asg
  BY DEF Load
<1>4. /\ report'.asg \in States /\ report'.config = config
      /\ report' = [asg |-> report'.asg, config |-> report'.config]
      /\ \A a \in Pairs : Honest(saved.asg[a], saved.config[a[1]]) =>
                            Honest(report'.asg[a], config[a[1]])
  BY <1>2, <1>3, RebasedReportIsHonest
<1>5. report' \in ReportType
  BY <1>2, <1>4, ReportFields
<1>6. \/ pc' = "final" /\ stop' = "complete" /\ Complete(report'.asg)
      \/ pc' = "plan" /\ stop' = "none"
  BY DEF Load, Leave
<1>7. TypeOK'
  <2>1. 1 \in 0..MaxBatches
    BY DrainAssumption
  <2> QED
    BY <1>1, <1>3, <1>4, <1>5, <1>6, <2>1 DEF TypeOK, ReportType, Verdicts
<1>8. RebasedReport(saved)' = RebasedReport(saved)
  BY <1>3 DEF RebasedReport
<1>9. \A a \in Pairs : Honest(report'.asg[a], config[a[1]])
  BY <1>4 DEF DrainInv
<1> QED
  BY <1>3, <1>4, <1>6, <1>7, <1>8, <1>9 DEF DrainInv

LEMMA PlanInv == DrainInv /\ Plan => DrainInv'
<1> SUFFICES ASSUME DrainInv, Plan PROVE DrainInv'
  OBVIOUS
<1>1. TypeOK /\ report \in ReportType
  BY TypeOfReports DEF DrainInv
<1>2. report.asg \in States
  BY <1>1, ReportFields
<1>3. UNCHANGED <<config, saved, report, batch, moved, trouble>> /\ prior' = report.asg
  BY DEF Plan
<1>4. RebasedReport(saved)' = RebasedReport(saved)
  BY <1>3 DEF RebasedReport
<1>5. CASE pc' = "final" /\ stop' = "no_eligible_work" /\ UNCHANGED <<plan, retries>>
  <2>1. TypeOK'
    BY <1>1, <1>2, <1>3, <1>5 DEF TypeOK, Verdicts
  <2> QED
    BY <1>3, <1>5, <2>1 DEF DrainInv, Plan
<1>6. CASE /\ pc' = "run" /\ UNCHANGED stop
           /\ plan' \in ReviewPlans(report.asg) /\ retries' \in RetryPlans(report.asg, plan')
  <2>1. \A a \in plan' : a \in Wanted /\ report.asg[a].review # "deep"
    BY <1>6, PlanIsWanted
  <2>2. retries' \subseteq Wanted
    BY <1>6, RetriesAreWanted
  <2>3. TypeOK'
    BY <1>1, <1>2, <1>3, <1>6, <2>1, <2>2 DEF TypeOK
  <2> QED
    BY <1>3, <1>4, <1>6, <2>1, <2>3 DEF DrainInv, Plan
<1> QED
  BY <1>5, <1>6 DEF Plan, Leave

LEMMA RunBatchInv == DrainInv /\ RunBatch => DrainInv'
<1> SUFFICES ASSUME DrainInv, RunBatch PROVE DrainInv'
  OBVIOUS
<1>1. TypeOK /\ report \in ReportType
  BY TypeOfReports DEF DrainInv
<1>2. /\ report.asg \in States /\ report.config = config
      /\ config \in [Reviewers -> Settings]
      /\ \A a \in Pairs : Honest(report.asg[a], config[a[1]])
  BY <1>1, ReportFields DEF DrainInv, RunBatch, TypeOK
<1>3. PICK res \in [plan -> Assignment], ver \in [retries -> Assignment] :
        /\ \A a \in plan : res[a] \in ReviewOutcomes(a, report.asg[a], config[a[1]])
        /\ \A a \in retries : ver[a] \in RetryOutcomes(report.asg[a], config[a[1]])
        /\ report' = [report EXCEPT !.asg = [a \in Pairs |->
                        IF a \in plan THEN res[a] ELSE IF a \in retries THEN ver[a] ELSE @[a]]]
        /\ trouble' = trouble + Cardinality({a \in plan : IsSetback(res[a])})
                              + Cardinality({a \in retries : IsSetback(ver[a])})
        /\ trouble' <= MaxTrouble
  BY DEF RunBatch
<1> DEFINE new(a) == IF a \in plan THEN res[a] ELSE IF a \in retries THEN ver[a] ELSE report.asg[a]
           next == [a \in Pairs |-> new(a)]
<1>4. ASSUME NEW a \in Pairs PROVE new(a) \in Assignment /\ Honest(new(a), config[a[1]])
  <2>1. /\ report.asg[a] \in Assignment /\ config[a[1]] \in Settings
        /\ Honest(report.asg[a], config[a[1]])
    <3>1. a[1] \in Reviewers
      BY DEF Pairs
    <3> QED
      BY <1>2, <3>1 DEF States
  <2>2. /\ \A s \in ReviewOutcomes(a, report.asg[a], config[a[1]]) :
             s \in Assignment /\ Honest(s, config[a[1]])
        /\ \A s \in RetryOutcomes(report.asg[a], config[a[1]]) :
             s \in Assignment /\ Honest(s, config[a[1]])
    BY <2>1, OutcomesAreHonest
  <2> QED
    BY <1>3, <2>1, <2>2
<1> HIDE DEF new
<1>5. next \in States
  BY <1>4 DEF States
<1>6. report' = [asg |-> next, config |-> config]
  BY <1>1, <1>2, <1>3 DEF ReportType, new
<1>7. report' \in ReportType
  BY <1>2, <1>5, <1>6, ReportFields
<1>8. trouble' \in 0..MaxTrouble
  <2>1. IsFiniteSet(plan) /\ IsFiniteSet(retries)
    <3>1. plan \in SUBSET Pairs /\ retries \in SUBSET Pairs
      BY <1>1, WantedFinite DEF TypeOK
    <3> QED
      BY <3>1, WantedFinite, FS_Subset
  <2>2. /\ Cardinality({a \in plan : IsSetback(res[a])}) \in Nat
        /\ Cardinality({a \in retries : IsSetback(ver[a])}) \in Nat
    <3>1. /\ {a \in plan : IsSetback(res[a])} \in SUBSET plan
          /\ {a \in retries : IsSetback(ver[a])} \in SUBSET retries
      OBVIOUS
    <3> QED
      BY <2>1, <3>1, FS_Subset, FS_CardinalityType
  <2>3. trouble \in Nat /\ MaxTrouble \in Nat
    BY <1>1, DrainAssumption DEF TypeOK
  <2> QED
    BY <1>3, <2>2, <2>3
<1>9. pc' = "settle" /\ UNCHANGED <<config, saved, prior, plan, retries, batch, stop, moved>>
  BY DEF RunBatch
<1>10. TypeOK'
  BY <1>1, <1>7, <1>8, <1>9 DEF TypeOK, ReportType
<1>11. \A a \in Pairs : Honest(report'.asg[a], config[a[1]])
  BY <1>4, <1>6
<1> QED
  BY <1>6, <1>9, <1>10, <1>11 DEF DrainInv

LEMMA SettleInv == DrainInv /\ Settle => DrainInv'
<1> SUFFICES ASSUME DrainInv, Settle PROVE DrainInv'
  OBVIOUS
<1>1. TypeOK /\ report \in ReportType
  BY TypeOfReports DEF DrainInv
<1>2. /\ report.asg \in States /\ report.config = config
      /\ config \in [Reviewers -> Settings]
      /\ \A a \in Pairs : Honest(report.asg[a], config[a[1]])
  BY <1>1, ReportFields DEF DrainInv, Settle, TypeOK
<1>3. /\ saved' = [asg |-> report.asg, config |-> report.config, verdict |-> "none"]
      /\ plan' = {} /\ retries' = {}
      /\ UNCHANGED <<config, report, prior, moved, trouble>>
  BY DEF Settle
<1>4. saved'.asg = report.asg /\ saved'.config = config /\ saved'.verdict = "none"
  BY <1>2, <1>3
<1>5. saved' \in SavedType
  BY <1>2, <1>3, ReportFields DEF Verdicts
<1>6. \/ pc' = "final" /\ stop' = "complete" /\ Complete(report.asg) /\ batch' = batch
      \/ pc' = "final" /\ stop' \in {"no_progress", "max_batches"} /\ batch' = batch
      \/ pc' = "plan" /\ stop' = stop /\ batch' = batch + 1 /\ batch # MaxBatches
  BY DEF Settle, Leave
<1>7. RebasedReport(saved)'.asg = report.asg
  <2>1. (config \in [Reviewers -> Settings])' /\ saved'.asg \in States /\ saved'.config \in [Reviewers -> Settings]
    BY <1>2, <1>3, <1>4
  <2>2. RebasedReport(saved)' = RebasedReport(saved')
    BY <1>3 DEF RebasedReport
  <2>3. saved'.config = config => RebasedReport(saved').asg = saved'.asg
    BY <1>2, <1>4, <2>1, RebasedReportIsHonest
  <2> QED
    BY <1>4, <2>2, <2>3
<1>8. TypeOK'
  <2>1. batch' \in 0..MaxBatches
    BY <1>1, <1>6, DrainAssumption DEF TypeOK
  <2> QED
    BY <1>1, <1>3, <1>5, <1>6, <2>1 DEF TypeOK, SavedType, Verdicts
<1> QED
  BY <1>2, <1>3, <1>4, <1>6, <1>7, <1>8 DEF DrainInv

LEMMA FinalInv == DrainInv /\ Final => DrainInv'
<1> SUFFICES ASSUME DrainInv, Final PROVE DrainInv'
  OBVIOUS
<1>1. TypeOK /\ report \in ReportType
  BY TypeOfReports DEF DrainInv
<1>2. /\ report.asg \in States /\ report.config = config
      /\ config \in [Reviewers -> Settings] /\ stop \in Verdicts
      /\ \A a \in Pairs : Honest(report.asg[a], config[a[1]])
      /\ stop = "complete" => Complete(report.asg)
  BY <1>1, ReportFields DEF DrainInv, Final, TypeOK
<1>3. /\ saved' = [asg |-> report.asg, config |-> report.config, verdict |-> stop]
      /\ pc' = "down"
      /\ UNCHANGED <<config, report, prior, plan, retries, batch, stop, moved, trouble>>
  BY DEF Final
<1>4. saved'.asg = report.asg /\ saved'.config = config /\ saved'.verdict = stop
  BY <1>2, <1>3
<1>5. saved' \in SavedType
  BY <1>2, <1>3, ReportFields
<1>6. TypeOK'
  BY <1>1, <1>3, <1>5 DEF TypeOK, SavedType
<1> QED
  BY <1>2, <1>3, <1>4, <1>6 DEF DrainInv

\* The environment and a refused run change no report; they end or keep the run.
LEMMA OtherInv ==
    DrainInv /\ (Refuse \/ Crash \/ Move \/ MoveBack
                 \/ \E r \in Reviewers : EditReview(r) \/ EditVerify(r)) => DrainInv'
<1> SUFFICES ASSUME DrainInv,
                    Refuse \/ Crash \/ Move \/ MoveBack
                      \/ \E r \in Reviewers : EditReview(r) \/ EditVerify(r)
             PROVE  DrainInv'
  OBVIOUS
<1>1. TypeOK /\ MaxTrouble \in Nat /\ trouble \in 0..MaxTrouble
  BY DrainAssumption DEF DrainInv, TypeOK
<1>2. Bother => trouble' \in 0..MaxTrouble
  BY <1>1 DEF Bother
<1>3. CASE Refuse \/ Crash
  <2>1. TypeOK'
    BY <1>1, <1>2, <1>3 DEF Refuse, Crash, TypeOK
  <2> QED
    BY <1>3, <2>1 DEF DrainInv, Refuse, Crash
<1>4. CASE Move \/ MoveBack
  <2>1. TypeOK'
    BY <1>1, <1>2, <1>4 DEF Move, MoveBack, TypeOK
  <2>2. UNCHANGED <<config, saved, report, prior, plan, retries, pc, batch, stop>>
    BY <1>4 DEF Move, MoveBack
  <2>3. RebasedReport(saved)' = RebasedReport(saved)
    BY <2>2 DEF RebasedReport
  <2> QED
    BY <2>1, <2>2, <2>3 DEF DrainInv
<1>5. CASE \E r \in Reviewers : EditReview(r) \/ EditVerify(r)
  <2>1. PICK r \in Reviewers : EditReview(r) \/ EditVerify(r)
    BY <1>5
  <2>2. config[r] \in Settings
    BY <1>1 DEF TypeOK
  <2>3. /\ [config[r] EXCEPT !.review = ~@] \in Settings
        /\ [config[r] EXCEPT !.verify = ~@] \in Settings
    BY <2>2 DEF Settings
  <2>4. \/ config' = [config EXCEPT ![r] = [config[r] EXCEPT !.review = ~@]]
        \/ config' = [config EXCEPT ![r] = [config[r] EXCEPT !.verify = ~@]]
    BY <2>1 DEF EditReview, EditVerify
  <2>5. config' \in [Reviewers -> Settings]
    BY <1>1, <2>3, <2>4 DEF TypeOK
  <2>6. /\ pc = "down" /\ Bother
        /\ UNCHANGED <<saved, report, prior, plan, retries, pc, batch, stop, moved>>
    BY <2>1 DEF EditReview, EditVerify
  <2>7. TypeOK'
    BY <1>1, <1>2, <2>5, <2>6 DEF TypeOK
  <2> QED
    BY <2>6, <2>7 DEF DrainInv
<1> QED
  BY <1>3, <1>4, <1>5

LEMMA StutterInv == DrainInv /\ UNCHANGED vars => DrainInv'
<1> SUFFICES ASSUME DrainInv, UNCHANGED vars PROVE DrainInv'
  OBVIOUS
<1>1. RebasedReport(saved)' = RebasedReport(saved)
  BY DEF vars, RebasedReport
<1>2. TypeOK'
  BY DEF DrainInv, TypeOK, vars
<1> QED
  BY <1>1, <1>2 DEF DrainInv, vars

LEMMA InvHolds == Spec => []DrainInv
<1>1. DrainInv /\ [Next]_vars => DrainInv'
  BY LoadInv, PlanInv, RunBatchInv, SettleInv, FinalInv, OtherInv, StutterInv DEF Next, Process
<1> QED
  BY InitInv, <1>1, PTL DEF Spec

-----------------------------------------------------------------------------
(* The theorems. *)

\* Every variable has its type: plans stay within the scope, batches and
\* mishaps within their bounds.
THEOREM TypeCorrect == Spec => []TypeOK
<1>1. DrainInv => TypeOK
  BY DEF DrainInv
<1> QED
  BY InvHolds, <1>1, PTL

\* A report that says "complete" is complete: every review and decision that
\* counts was made under the settings the report names, and every high-risk
\* pack of the scope was read deeply.
THEOREM VerdictHolds == Spec => []VerdictIsTrue
<1>1. DrainInv => VerdictIsTrue
  <2> SUFFICES ASSUME DrainInv, saved.verdict = "complete"
               PROVE  /\ \A a \in Wanted :
                           /\ saved.asg[a].review \in {"shallow", "deep"}
                           /\ saved.asg[a].reviewedUnder = saved.config[a[1]].review
                           /\ saved.asg[a].decision # "unresolved"
                           /\ saved.asg[a].decision = "decided" =>
                                saved.asg[a].decidedUnder = saved.config[a[1]].verify
                      /\ \A p \in HighRisk \cap ScopePacks :
                           \E a \in Matching : a[2] = p /\ saved.asg[a].review = "deep"
    BY DEF VerdictIsTrue
  <2>1. Complete(saved.asg)
    BY DEF DrainInv
  <2>2. \A a \in Wanted : IsReviewed(saved.asg, a) /\ saved.asg[a].decision # "unresolved"
    BY <2>1 DEF Complete, Unreviewed, Unverified
  <2>3. \A a \in Wanted : Honest(saved.asg[a], saved.config[a[1]])
    BY WantedFinite DEF DrainInv
  <2>4. ASSUME NEW p \in HighRisk \cap ScopePacks
        PROVE  \E a \in Matching : a[2] = p /\ saved.asg[a].review = "deep"
    <3>1. p \notin ShallowOnly(saved.asg)
      BY <2>1 DEF Complete
    <3>2. PICK a \in Wanted : a[2] = p
      BY DEF ScopePacks
    <3>3. a \in Matching /\ IsReviewed(saved.asg, a)
      BY <2>2, <3>2, WantedFinite
    <3> QED
      BY <3>1, <3>2, <3>3 DEF ShallowOnly, IsReviewed
  <2> QED
    BY <2>2, <2>3, <2>4 DEF Honest, IsReviewed
<1> QED
  BY InvHolds, <1>1, PTL

\* What a batch reviews has no deep review on disk, unless its reviewer's
\* settings changed since: no crash and no restart makes it paid twice.
THEOREM DeepReviewsAreKept == Spec => []DeepReviewIsKept
<1>1. DrainInv => DeepReviewIsKept
  <2> SUFFICES ASSUME DrainInv, pc = "run", NEW a \in plan, saved.asg[a].review = "deep",
                      saved.config[a[1]].review = config[a[1]].review
               PROVE  FALSE
    BY DEF DeepReviewIsKept
  <2>1. TypeOK /\ saved \in SavedType
    BY TypeOfReports DEF DrainInv
  <2>2. /\ saved.asg \in States /\ saved.config \in [Reviewers -> Settings]
        /\ config \in [Reviewers -> Settings]
    BY <2>1, ReportFields DEF TypeOK
  <2>3. a \in Pairs
    BY <2>1, WantedFinite DEF TypeOK
  <2>4. RebasedReport(saved).asg[a].review = saved.asg[a].review
    BY <2>2, <2>3, RebasedReportIsHonest
  <2>5. report.asg[a].review # "deep" /\ report.asg = RebasedReport(saved).asg
    BY DEF DrainInv
  <2> QED
    BY <2>4, <2>5
<1> QED
  BY InvHolds, <1>1, PTL
-----------------------------------------------------------------------------
(* Work is found.  An incomplete scope has something pending, and every way  *)
(* to plan a batch takes some of it, within the cap.                         *)

\* What WorkIsFound says of a batch planned from the assignments g.
Fits(g, reviews, verifications) ==
  /\ reviews \cup verifications # {}
  /\ reviews \cap verifications = {}
  /\ Cardinality(reviews) + Cardinality(verifications) <= BatchSize
  /\ \A p \in OnlyDepth(g) : Cardinality({a \in reviews : a[2] = p}) <= 1

WorkInv ==
  /\ stop # "no_eligible_work"
  /\ pc = "plan" => Pending(report.asg) # {}
  /\ pc = "run" => Fits(report.asg, plan, retries)

\* What keeps a scope from being complete is pending.
LEMMA IncompleteIsPending == ASSUME NEW g, ~Complete(g) PROVE Pending(g) # {}
  BY DEF Complete, Pending

\* A set of indices that is not empty has a first one.
LEMMA FirstIndex ==
    ASSUME NEW S, S \subseteq Nat, S # {}
    PROVE  \E x \in S : \A y \in S : x <= y
<1> DEFINE less == OpToRel(<, Nat)
<1>1. \A m, n \in Nat : m < n => <<m, n>> \in less
  BY DEF OpToRel
<1>2. IsWellFoundedOn(less, Nat)
  BY NatLessThanWellFounded
<1> HIDE DEF less
<1>3. PICK x \in S : \A y \in S : <<y, x>> \notin less
  BY <1>2, WFMin
<1>4. ASSUME NEW y \in S PROVE x <= y
  <2>1. x \in Nat /\ y \in Nat
    OBVIOUS
  <2>2. ~ (y < x)
    BY <1>1, <1>3, <2>1, Zenon
  <2> QED
    BY <2>1, <2>2
<1> QED
  BY <1>4

\* A set has a subset of every smaller size.
LEMMA SubsetOfSize ==
    ASSUME NEW S, IsFiniteSet(S), NEW k \in Nat, k <= Cardinality(S)
    PROVE  \E s \in SUBSET S : Cardinality(s) = k
<1>1. Cardinality(S) \in Nat /\ ExistsBijection(1..Cardinality(S), S)
  BY FS_CardinalityType
<1>2. PICK f \in Bijection(1..Cardinality(S), S) : TRUE
  BY <1>1 DEF ExistsBijection
<1> DEFINE s == {f[i] : i \in 1..k}
           h == [i \in 1..k |-> f[i]]
<1>3. /\ f \in [1..Cardinality(S) -> S]
      /\ \A i, j \in 1..Cardinality(S) : f[i] = f[j] => i = j
  BY <1>2 DEF Bijection, Injection, IsInjective
<1>4. 1..k \subseteq 1..Cardinality(S)
  BY <1>1
<1>5. s \in SUBSET S
  BY <1>3, <1>4
<1>6. h \in Bijection(1..k, s)
  BY <1>3, <1>4 DEF Bijection, Injection, Surjection, IsInjective
<1>7. ExistsBijection(1..k, s)
  BY <1>6 DEF ExistsBijection
<1>8. IsFiniteSet(1..k) /\ Cardinality(1..k) = k
  BY FS_Interval
<1>9. Cardinality(s) = k
  BY <1>7, <1>8, FS_Bijection
<1> QED
  BY <1>5, <1>9

\* A cap is used as far as it goes: it takes something where it may, and never
\* more than it allows.
LEMMA CappedFits ==
    ASSUME NEW S, IsFiniteSet(S), NEW size \in Nat, NEW s \in Capped(S, size)
    PROVE  /\ s \subseteq S /\ IsFiniteSet(s) /\ Cardinality(s) \in Nat /\ Cardinality(s) <= size
           /\ S # {} /\ size # 0 => s # {}
<1>1. /\ s \subseteq S
      /\ Cardinality(s) = IF Cardinality(S) < size THEN Cardinality(S) ELSE size
  BY DEF Capped
<1>2. IsFiniteSet(s) /\ Cardinality(s) \in Nat /\ Cardinality(S) \in Nat
  BY <1>1, FS_Subset, FS_CardinalityType
<1>3. S # {} => Cardinality(S) # 0
  BY FS_EmptySet
<1>4. Cardinality({}) = 0
  BY FS_EmptySet
<1> QED
  BY <1>1, <1>2, <1>3, <1>4

\* A cap can always be used as far as it goes.
LEMMA CappedExists ==
    ASSUME NEW S, IsFiniteSet(S), NEW size \in Nat
    PROVE  Capped(S, size) # {}
<1>1. Cardinality(S) \in Nat
  BY FS_CardinalityType
<1> DEFINE k == IF Cardinality(S) < size THEN Cardinality(S) ELSE size
<1>2. k \in Nat /\ k <= Cardinality(S)
  BY <1>1
<1>3. PICK s \in SUBSET S : Cardinality(s) = k
  BY <1>2, SubsetOfSize
<1> QED
  BY <1>3 DEF Capped

\* What is pending, eligible or forced is of the scope, and finitely much.
LEMMA WorkIsFinite ==
    ASSUME NEW g
    PROVE  /\ IsFiniteSet(Eligible(g)) /\ IsFiniteSet(Unverified(g))
           /\ IsFiniteSet(Forced(g)) /\ Pending(g) \subseteq ScopePacks
<1>1. Eligible(g) \in SUBSET Pairs /\ Unverified(g) \in SUBSET Pairs
  BY WantedFinite DEF Eligible, Unverified
<1>2. Forced(g) \in SUBSET Packs
  BY DrainAssumption DEF Forced, ShallowOnly
<1>3. Pending(g) \subseteq ScopePacks
  BY DEF Pending, ScopePacks, Unreviewed, Unverified
<1> QED
  BY <1>1, <1>2, <1>3, WantedFinite, DrainAssumption, FS_Subset

\* A pack of the scope has a reviewer who matches it first.
LEMMA SomebodyMatches == ASSUME NEW p \in ScopePacks PROVE FirstToMatch(p) # {}
<1>1. PICK a \in Wanted : a[2] = p
  BY DEF ScopePacks
<1>2. a[1] \in InScope /\ p \in Matches[a[1]]
  BY <1>1 DEF Wanted, Matching
<1> DEFINE K == {k \in 1..Len(Scope) : p \in Matches[Scope[k]]}
<1>3. K # {} /\ K \subseteq Nat
  BY <1>2 DEF InScope
<1>4. PICK k \in K : \A j \in K : k <= j
  BY <1>3, FirstIndex
<1>5. /\ k \in 1..Len(Scope) /\ p \in Matches[Scope[k]]
      /\ \A j \in 1..(k - 1) : p \notin Matches[Scope[j]]
  <2>1. Len(Scope) \in Nat
    BY DrainAssumption
  <2> QED
    BY <1>4, <2>1
<1>6. Scope[k] \in FirstToMatch(p)
  BY <1>5 DEF FirstToMatch
<1> QED
  BY <1>6

\* A depth upgrade takes a pack that lacks depth, one reviewer to a pack.
LEMMA UpgradeFits ==
    ASSUME NEW g, NEW c \in DepthUpgrades(g)
    PROVE  Fits(g, c, {})
<1>1. PICK r \in UNION {FirstToMatch(p) : p \in OnlyDepth(g)} :
        \E ps \in Capped(Forced(g) \cap Matches[r], BatchSize) : c = {r} \X ps
  BY ZenonT(60) DEF DepthUpgrades
<1>2. PICK ps \in Capped(Forced(g) \cap Matches[r], BatchSize) : c = {r} \X ps
  BY <1>1
<1>3. PICK p \in OnlyDepth(g) : r \in FirstToMatch(p)
  BY <1>1
<1>4. p \in Forced(g) \cap Matches[r]
  BY <1>3 DEF FirstToMatch, OnlyDepth
<1>5. IsFiniteSet(Forced(g) \cap Matches[r])
  <2>1. Forced(g) \cap Matches[r] \in SUBSET Forced(g)
    OBVIOUS
  <2> QED
    BY <2>1, WorkIsFinite, FS_Subset
<1>6. ps # {} /\ IsFiniteSet(ps) /\ Cardinality(ps) \in Nat /\ Cardinality(ps) <= BatchSize
  BY <1>4, <1>5, DrainAssumption, CappedFits
<1>7. Cardinality(c) <= BatchSize
  <2>1. IsFiniteSet({r}) /\ Cardinality({r}) = 1
    BY FS_Singleton
  <2>2. Cardinality(c) = Cardinality({r}) * Cardinality(ps)
    BY <1>2, <1>6, <2>1, FS_Product
  <2> QED
    BY <1>6, <2>1, <2>2
<1>8. \A q : Cardinality({a \in c : a[2] = q}) <= 1
  <2> TAKE q
  <2>1. {a \in c : a[2] = q} \in SUBSET {<<r, q>>}
    BY <1>2
  <2>2. IsFiniteSet({<<r, q>>}) /\ Cardinality({<<r, q>>}) = 1
    BY FS_Singleton
  <2> HIDE DEF Fits
  <2> QED
    BY <2>1, <2>2, FS_Subset
<1>9. c # {} /\ Cardinality({}) = 0 /\ Cardinality(c) \in Nat
  <2>1. c # {}
    <3>1. PICK p1 \in ps : TRUE
      BY <1>6
    <3>2. <<r, p1>> \in c
      BY <1>2, <3>1
    <3> QED
      BY <3>2
  <2>2. IsFiniteSet(c)
    BY <1>2, <1>6, FS_Singleton, FS_Product
  <2> QED
    BY <2>1, <2>2, FS_EmptySet, FS_CardinalityType
<1> QED
  BY <1>7, <1>8, <1>9 DEF Fits

\* Without a depth upgrade, the shares of the reviewers fit the cap, and a pack
\* that lacks only depth has one reviewer.
LEMMA ShareFits ==
    ASSUME NEW g, Pending(g) # {}, DepthUpgrades(g) = {},
           NEW c \in Shared(Eligible(g), BatchSize),
           NEW v \in Shared(Unverified(g) \ c, BatchSize - Cardinality(c))
    PROVE  Fits(g, c, v)
<1>1. BatchSize \in Nat \ {0}
  BY DrainAssumption
<1>2. /\ c \in Capped(Eligible(g), BatchSize)
      /\ v \in Capped(Unverified(g) \ c, BatchSize - Cardinality(c))
  BY DEF Shared
<1>3. /\ c \subseteq Eligible(g) /\ IsFiniteSet(c)
      /\ Cardinality(c) \in Nat /\ Cardinality(c) <= BatchSize
      /\ Eligible(g) # {} => c # {}
  BY <1>1, <1>2, WorkIsFinite, CappedFits
<1>4. IsFiniteSet(Unverified(g) \ c)
  <2>1. Unverified(g) \ c \in SUBSET Unverified(g)
    OBVIOUS
  <2> QED
    BY <2>1, WorkIsFinite, FS_Subset
<1>5. /\ v \subseteq Unverified(g) \ c /\ Cardinality(v) \in Nat
      /\ Cardinality(v) <= BatchSize - Cardinality(c)
      /\ Unverified(g) \ c # {} /\ BatchSize - Cardinality(c) # 0 => v # {}
  <2>1. BatchSize - Cardinality(c) \in Nat
    BY <1>1, <1>3
  <2> QED
    BY <1>2, <1>4, <2>1, CappedFits
<1>6. c \cup v # {}
  <2> SUFFICES ASSUME c = {}, v = {} PROVE FALSE
    OBVIOUS
  <2>1. Eligible(g) = {} /\ Unverified(g) = {}
    <3>1. Cardinality(c) = 0
      BY FS_EmptySet
    <3> QED
      BY <1>1, <1>3, <1>5, <3>1
  <2>2. Unreviewed(g) = {}
    BY <2>1 DEF Unreviewed, Eligible, Pending
  <2>3. PICK p \in ShallowOnly(g) \cap ScopePacks : TRUE
    BY <2>1, <2>2 DEF Pending
  <2>4. p \in Forced(g)
    BY <2>3 DEF Forced, Pending
  <2>5. PICK a \in Wanted : a[2] = p
    BY <2>3 DEF ScopePacks
  <2> QED
    BY <2>1, <2>4, <2>5 DEF Eligible, Forced
<1>7. ASSUME NEW p \in OnlyDepth(g)
      PROVE  Cardinality({a \in c : a[2] = p}) <= 1
  <2>1. p \in Forced(g) /\ p \in ScopePacks
    BY WorkIsFinite DEF OnlyDepth, Forced
  <2>2. Len(Scope) < 2
    <3> SUFFICES ASSUME ~(Len(Scope) < 2) PROVE FALSE
      OBVIOUS
    <3>1. PICK r \in FirstToMatch(p) : TRUE
      BY <2>1, SomebodyMatches
    <3>2. IsFiniteSet(Forced(g) \cap Matches[r])
      <4>1. Forced(g) \cap Matches[r] \in SUBSET Forced(g)
        OBVIOUS
      <4> QED
        BY <4>1, WorkIsFinite, FS_Subset
    <3>3. PICK ps \in Capped(Forced(g) \cap Matches[r], BatchSize) : TRUE
      BY <1>1, <3>2, CappedExists
    <3>4. r \in UNION {FirstToMatch(q) : q \in OnlyDepth(g)}
      BY <3>1
    <3> DEFINE upgrades(q) == {{q} \X qs : qs \in Capped(Forced(g) \cap Matches[q], BatchSize)}
    <3>5. DepthUpgrades(g) = UNION {upgrades(q) : q \in UNION {FirstToMatch(q) : q \in OnlyDepth(g)}}
      BY Zenon DEF DepthUpgrades
    <3>6. {r} \X ps \in upgrades(r)
      BY <3>3
    <3> HIDE DEF upgrades
    <3>7. {r} \X ps \in DepthUpgrades(g)
      BY <3>4, <3>5, <3>6
    <3> QED
      BY <3>7
  <2>3. \A a \in Wanted : a[1] = Scope[1] /\ a = <<a[1], a[2]>>
    <3>1. Len(Scope) \in Nat /\ Len(Scope) > 0
      BY DrainAssumption
    <3>2. \A n \in Nat : n > 0 /\ n < 2 => n = 1
      OBVIOUS
    <3>3. Len(Scope) = 1
      BY <2>2, <3>1, <3>2, Zenon
    <3> QED
      BY <3>3 DEF Wanted, Matching, Pairs, InScope
  <2>4. {a \in c : a[2] = p} \in SUBSET {<<Scope[1], p>>}
    BY <1>3, <2>3 DEF Eligible
  <2>5. IsFiniteSet({<<Scope[1], p>>}) /\ Cardinality({<<Scope[1], p>>}) = 1
    BY FS_Singleton
  <2> QED
    BY <2>4, <2>5, FS_Subset
<1> QED
  BY <1>1, <1>3, <1>5, <1>6, <1>7 DEF Fits

\* Every way to plan a batch fits.
LEMMA PlanFits ==
    ASSUME NEW g, Pending(g) # {}, NEW c \in ReviewPlans(g), NEW v \in RetryPlans(g, c)
    PROVE  Fits(g, c, v)
<1>1. CASE DepthUpgrades(g) # {}
  BY <1>1, UpgradeFits DEF ReviewPlans, RetryPlans
<1>2. CASE DepthUpgrades(g) = {}
  BY <1>2, ShareFits DEF ReviewPlans, RetryPlans
<1> QED
  BY <1>1, <1>2

\* Every step keeps that work is found.
LEMMA NextWork == WorkInv /\ [Next]_vars => WorkInv'
<1> SUFFICES ASSUME WorkInv, [Next]_vars PROVE WorkInv'
  OBVIOUS
<1>0. /\ Pending(report.asg)' = Pending(report'.asg)
      /\ Fits(report.asg, plan, retries)' = Fits(report'.asg, plan', retries')
  BY DEF Pending, Fits
<1>1. CASE Load
  <2>1. \/ pc' = "final" /\ stop' = "complete"
        \/ pc' = "plan" /\ stop' = "none" /\ ~Complete(report'.asg)
    BY <1>1 DEF Load, Leave
  <2> QED
    BY <1>0, <2>1, IncompleteIsPending DEF WorkInv
<1>2. CASE Plan
  <2>1. Pending(report.asg) # {}
    BY <1>2 DEF Plan, WorkInv
  <2>2. /\ pc' = "run" /\ UNCHANGED <<stop, report>>
        /\ plan' \in ReviewPlans(report.asg) /\ retries' \in RetryPlans(report.asg, plan')
    BY <1>2, <2>1 DEF Plan
  <2>3. Fits(report.asg, plan', retries')
    BY <2>1, <2>2, PlanFits
  <2> QED
    BY <1>0, <2>2, <2>3 DEF WorkInv
<1>3. CASE RunBatch
  BY <1>3 DEF RunBatch, WorkInv
<1>4. CASE Settle
  <2>1. \/ pc' = "final" /\ stop' \in {"complete", "no_progress", "max_batches"}
        \/ pc' = "plan" /\ stop' = stop /\ report' = report /\ ~Complete(report.asg)
    BY <1>4 DEF Settle, Leave
  <2> QED
    BY <1>0, <2>1, IncompleteIsPending DEF WorkInv
<1>5. CASE Final \/ Refuse \/ Crash
  BY <1>5 DEF Final, Refuse, Crash, WorkInv
<1>6. CASE Move \/ MoveBack \/ UNCHANGED vars
  <2>1. UNCHANGED <<pc, stop, report, plan, retries>>
    BY <1>6 DEF Move, MoveBack, vars
  <2> QED
    BY <1>0, <2>1 DEF WorkInv
<1>7. CASE \E r \in Reviewers : EditReview(r) \/ EditVerify(r)
  BY <1>7 DEF EditReview, EditVerify, WorkInv
<1> QED
  BY <1>1, <1>2, <1>3, <1>4, <1>5, <1>6, <1>7 DEF Next, Process

\* An incomplete scope always has a batch, for every set of packs, reviewers and
\* matches and every cap: it is never empty, fits the cap, and gives a pack that
\* lacks only depth to one reviewer.
THEOREM WorkAlwaysFound == Spec => []WorkIsFound
<1>1. Init => WorkInv
  BY DEF Init, WorkInv
<1>2. WorkInv /\ [Next]_vars => WorkInv'
  BY NextWork
<1>3. WorkInv => WorkIsFound
  BY DEF WorkInv, WorkIsFound, Fits
<1> QED
  BY <1>1, <1>2, <1>3, PTL DEF Spec
=============================================================================
