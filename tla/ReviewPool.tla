------------------------------- MODULE ReviewPool -------------------------------
(***************************************************************************)
(* The LLM work of one reviewer (llm/review.py, as pipeline/runner.py      *)
(* calls it): a pool of threads reviews the shallow packs, then the deep   *)
(* packs, then verifies the findings of each pack.  The three calls share  *)
(* one circuit breaker, keyed by the route that a profile resolves to, and *)
(* the response cache.                                                     *)
(*                                                                         *)
(* A worker looks its pack up in the cache, asks the circuit for admission,*)
(* calls the provider, stores the answer and records the outcome; each is  *)
(* a step, so that other workers come in between.  A key of the cache is   *)
(* read at most once in a run, so that the cache is what it held before.   *)
(***************************************************************************)
EXTENDS Integers, Sequences, SequencesExt, FiniteSets, FiniteSetsExt

CONSTANTS
    NPacks,         \* number of selected context packs
    Shallow,        \* the packs of the shallow pass; the others are reviewed deep
    Jobs,           \* llm.jobs
    MaxFailures,    \* max_consecutive_provider_failures
    Profiles,       \* LLM profiles, the default configuration included
    KeyOf,          \* KeyOf[f]: the route of profile f; profiles may share one
    CacheOf,        \* CacheOf[f]: the cached responses that profile f may use
    Incompatible,   \* routes whose model cannot honour the configured effort
    ReviewProfile,  \* ReviewProfile[p]: the profile that routing picks for pack p
    VerifyProfile,  \* VerifyProfile[p]: and the one for its findings
    Escalated,      \* escalated_review_profile, or None
    Failures,       \* how a provider call may fail
    Findings,       \* names of the findings that a review may report in a pack
    Warm,           \* packs whose review by ReviewProfile[p] is cached
    Known,          \* Known[p]: findings of p whose verification is cached
    StoreFailures,  \* how a failed write of the cache is classified; {} without cache
    None

Packs == 1..NPacks
Terminal == {"failed_auth", "failed_quota"}
Retryable == {"failed_provider", "failed_rate_limit", "failed_timeout"}
Failed == Terminal \cup Retryable \cup {"failed_malformed", "failed_refusal", "failed_truncated"}
Routes == {KeyOf[f] : f \in Profiles}

ASSUME PoolAssumption ==
    /\ NPacks \in Nat /\ Shallow \subseteq Packs
    /\ Jobs \in Nat \ {0} /\ MaxFailures \in Nat \ {0}
    /\ KeyOf = [f \in Profiles |-> KeyOf[f]] /\ CacheOf = [f \in Profiles |-> CacheOf[f]]
    /\ Incompatible \subseteq Routes
    /\ ReviewProfile \in [Packs -> Profiles] /\ VerifyProfile \in [Packs -> Profiles]
    /\ Escalated \in Profiles \cup {None}
    /\ None \notin Profiles \cup Failed \cup {"approved", "rejected", "superseded"}
    /\ Failures \subseteq Failed /\ StoreFailures \subseteq Failed
    /\ Warm \subseteq Packs /\ Known \in [Packs -> SUBSET Findings]

VARIABLES
    phase,      \* "shallow", "deep", "verify", "done"
    queue,      \* packs of the phase that are not submitted yet
    inFlight,   \* submitted and not collected
    stage,      \* stage[p]: where the worker of p is
    profile,    \* profile[p]: the profile of the attempt
    fell,       \* packs whose one fallback was taken
    result,     \* result[p]: status of the attempt, before it is recorded
    answer,     \* answer[p]: findings that the review reported or the verifier approved
    runs,       \* runs[p]: the LLM runs of p, oldest first
    found,      \* found[p]: findings kept from the review of p
    verdict,    \* verdict[p][f]: the verification of finding f of p
    circuit,    \* circuit[r]: consecutive failures and the status that opened it
    late        \* late[r]: provider calls of route r that ended after it opened

pool     == <<phase, queue, inFlight>>
attempt  == <<profile, fell, result, answer>>
outcomes == <<runs, found, verdict>>
ghosts   == <<late>>
vars     == <<pool, stage, attempt, outcomes, circuit, ghosts>>

Key(p) == KeyOf[profile[p]]
IsOpen(r) == circuit[r].trigger # None

--------------------------------------------------------------------------------
(* The pool.                                                               *)

\* The packs that the call of phase ph works on.
Work(ph) == CASE ph = "shallow" -> Shallow
              [] ph = "deep"    -> Packs \ Shallow
              [] ph = "verify"  -> {p \in Packs : found[p] # {}}
              [] OTHER          -> {}

\* The first packs of a call, up to the number of workers.
FirstJobs(ps) == {p \in ps : Cardinality({o \in ps : o < p}) < Jobs}

Submitted(ps) == [p \in Packs |-> IF p \in ps THEN "lookup" ELSE "waiting"]

Init ==
    /\ phase = "shallow"
    /\ inFlight = FirstJobs(Shallow) /\ queue = Shallow \ FirstJobs(Shallow)
    /\ stage = Submitted(FirstJobs(Shallow))
    /\ profile = ReviewProfile /\ fell = {}
    /\ result = [p \in Packs |-> None] /\ answer = [p \in Packs |-> {}]
    /\ runs = [p \in Packs |-> <<>>] /\ found = [p \in Packs |-> {}]
    /\ verdict = [p \in Packs |-> [f \in Findings |-> None]]
    /\ circuit = [r \in Routes |-> [failures |-> 0, trigger |-> None]]
    /\ late = [r \in Routes |-> 0]

\* The main thread takes a finished future and submits the next pack.
Collect(p) ==
    /\ stage[p] = "finished"
    /\ LET next == IF queue = {} THEN {} ELSE {Min(queue)}
       IN  /\ inFlight' = (inFlight \ {p}) \cup next
           /\ queue' = queue \ next
           /\ stage' = [o \in Packs |-> IF o \in next THEN "lookup"
                                        ELSE IF o = p THEN "waiting" ELSE stage[o]]
    /\ UNCHANGED <<phase, attempt, outcomes, circuit, ghosts>>

\* All results of a call are in, and the next call begins.
NextPhase ==
    /\ phase # "done" /\ inFlight = {}
    /\ phase' = CASE phase = "shallow" -> "deep" [] phase = "deep" -> "verify" [] OTHER -> "done"
    /\ inFlight' = FirstJobs(Work(phase'))
    /\ queue' = Work(phase') \ FirstJobs(Work(phase'))
    /\ stage' = Submitted(FirstJobs(Work(phase')))
    /\ profile' = IF phase' = "verify" THEN VerifyProfile ELSE profile
    /\ UNCHANGED <<fell, result, answer, outcomes, circuit, ghosts>>

--------------------------------------------------------------------------------
(* A worker.                                                               *)

\* Only a spent quota sends a pack to the escalated profile, and only once.
FallsBack(p, status) ==
    /\ phase # "verify"
    /\ status = "failed_quota"
    /\ Escalated \notin {None, profile[p]}
    /\ p \notin fell

EndAttemptUntilAnswered(p, status, cause) ==
    /\ runs' = [runs EXCEPT ![p] =
                  IF status = "skipped" THEN @ ELSE Append(@, [key |-> Key(p), status |-> status])]
    /\ IF cause = "failed_quota" /\ phase # "verify" /\ Escalated # None
       THEN /\ stage' = [stage EXCEPT ![p] = "lookup"]
            /\ profile' = [profile EXCEPT ![p] = Escalated]
            /\ fell' = fell \cup {p}
       ELSE /\ stage' = [stage EXCEPT ![p] = "finished"]
            /\ UNCHANGED <<profile, fell>>

\* The attempt ends with a run of the given status; cause decides on a fallback.
EndAttempt(p, status, cause) ==
    /\ runs' = [runs EXCEPT ![p] = Append(@, [key |-> Key(p), status |-> status])]
    /\ IF FallsBack(p, cause)
       THEN /\ stage' = [stage EXCEPT ![p] = "lookup"]
            /\ profile' = [profile EXCEPT ![p] = Escalated]
            /\ fell' = fell \cup {p}
       ELSE /\ stage' = [stage EXCEPT ![p] = "finished"]
            /\ UNCHANGED <<profile, fell>>

\* The findings of p without a cached verification.
Misses(p) == found[p] \ Known[p]

JudgedByApproval(status, approved) == IF approved THEN "approved" ELSE "rejected"

\* A finding whose verification failed is superseded, which is no verdict on it.
Judged(status, approved) ==
    IF status # "ok" THEN "superseded" ELSE IF approved THEN "approved" ELSE "rejected"

\* What the pack keeps of an attempt: the findings of a review that succeeded,
\* or a verdict on each finding that was asked about.
Keep(p, status, reported) ==
    IF phase = "verify"
    THEN /\ verdict' = [verdict EXCEPT ![p] = [f \in Findings |->
                          IF f \in Misses(p) THEN Judged(status, f \in reported) ELSE @[f]]]
         /\ UNCHANGED found
    ELSE /\ found' = [found EXCEPT ![p] = IF status = "ok" THEN reported ELSE {}]
         /\ UNCHANGED verdict

\* The profile cannot be used: no call, and the circuit does not hear of it.
RejectProfile(p) ==
    /\ stage[p] = "lookup" /\ Key(p) \in Incompatible
    /\ IF phase = "verify"
       THEN verdict' = [verdict EXCEPT ![p] = [f \in Findings |->
                           IF f \in found[p] THEN Judged("failed_provider", FALSE) ELSE @[f]]]
       ELSE UNCHANGED verdict
    /\ EndAttempt(p, "failed_provider", "failed_provider")
    /\ UNCHANGED <<pool, result, answer, found, circuit, ghosts>>

ReviewIsCached(p) == p \in Warm /\ CacheOf[profile[p]] = CacheOf[ReviewProfile[p]]

\* The review is read from the cache, whatever the circuit says.
ReadReview(p) ==
    /\ stage[p] = "lookup" /\ Key(p) \notin Incompatible /\ phase # "verify"
    /\ IF ReviewIsCached(p)
       THEN /\ \E reported \in SUBSET Findings : Keep(p, "ok", reported)
            /\ EndAttempt(p, "ok", "ok")
       ELSE /\ stage' = [stage EXCEPT ![p] = "admit"]
            /\ UNCHANGED <<profile, fell, outcomes>>
    /\ UNCHANGED <<pool, result, answer, circuit, ghosts>>

\* The cached verifications of the pack are read.
ReadVerifications(p) ==
    /\ stage[p] = "lookup" /\ Key(p) \notin Incompatible /\ phase = "verify"
    /\ \E approved \in SUBSET (found[p] \cap Known[p]) :
          verdict' = [verdict EXCEPT ![p] = [f \in Findings |->
                        IF f \in found[p] \cap Known[p] THEN Judged("ok", f \in approved) ELSE @[f]]]
    /\ IF Misses(p) = {}
       THEN EndAttempt(p, "ok", "ok")
       ELSE /\ stage' = [stage EXCEPT ![p] = "admit"]
            /\ UNCHANGED <<profile, fell, runs>>
    /\ UNCHANGED <<pool, result, answer, found, circuit, ghosts>>

AdmitUnchecked(p) ==
    /\ stage[p] = "admit"
    /\ stage' = [stage EXCEPT ![p] = "call"]
    /\ UNCHANGED <<pool, attempt, outcomes, circuit, ghosts>>

OwnCause(p) == "skipped"

\* What opened the circuit counts as the failure of a pack that is skipped.
SkipCause(p) == circuit[Key(p)].trigger

\* The circuit is asked after the cache, right before the call.
Admit(p) ==
    /\ stage[p] = "admit"
    /\ IF IsOpen(Key(p))
       THEN /\ EndAttempt(p, "skipped", SkipCause(p))
            /\ Keep(p, "skipped", {})
       ELSE /\ stage' = [stage EXCEPT ![p] = "call"]
            /\ UNCHANGED <<profile, fell, outcomes>>
    /\ UNCHANGED <<pool, result, answer, circuit, ghosts>>

\* The provider answers, or fails.
Answer(p) ==
    /\ stage[p] = "call"
    /\ \/ /\ result' = [result EXCEPT ![p] = "ok"]
          /\ \E reported \in SUBSET (IF phase = "verify" THEN Misses(p) ELSE Findings) :
                answer' = [answer EXCEPT ![p] = reported]
       \/ \E status \in Failures :
             /\ result' = [result EXCEPT ![p] = status]
             /\ answer' = [answer EXCEPT ![p] = {}]
    /\ stage' = [stage EXCEPT ![p] = IF result'[p] = "ok" THEN "store" ELSE "record"]
    /\ late' = [late EXCEPT ![Key(p)] = @ + (IF IsOpen(Key(p)) THEN 1 ELSE 0)]
    /\ UNCHANGED <<pool, profile, fell, outcomes, circuit>>

\* The answer is written to the cache.  An error of that write is handled like
\* an error of the call and its text classified the same way.
Store(p) ==
    /\ stage[p] = "store"
    /\ stage' = [stage EXCEPT ![p] = "record"]
    /\ \E status \in {"ok"} \cup StoreFailures : result' = [result EXCEPT ![p] = status]
    /\ UNCHANGED <<pool, profile, fell, answer, outcomes, circuit, ghosts>>

QuotaIsRetryable(c, status) ==
    LET n == IF status \in Retryable \cup {"failed_quota"} THEN c.failures + 1 ELSE 0
    IN  IF c.trigger # None THEN c
        ELSE [failures |-> n, trigger |-> IF n >= MaxFailures THEN status ELSE None]

\* The circuit after a call of the given status; it never closes.
AfterCall(c, status) ==
    IF c.trigger # None THEN c
    ELSE IF status \in Terminal THEN [c EXCEPT !.trigger = status]
    ELSE IF status \in Retryable
         THEN [failures |-> c.failures + 1,
               trigger  |-> IF c.failures + 1 >= MaxFailures THEN status ELSE None]
    ELSE [c EXCEPT !.failures = 0]

\* The outcome of a call is recorded and the attempt ends.
Record(p) ==
    /\ stage[p] = "record"
    /\ circuit' = [circuit EXCEPT ![Key(p)] = AfterCall(@, result[p])]
    /\ EndAttempt(p, result[p], result[p])
    /\ Keep(p, result[p], answer[p])
    /\ UNCHANGED <<pool, result, answer, ghosts>>

--------------------------------------------------------------------------------
Worker(p) ==
    \/ RejectProfile(p) \/ ReadReview(p) \/ ReadVerifications(p)
    \/ Admit(p) \/ Answer(p) \/ Store(p) \/ Record(p)

Main == NextPhase \/ \E p \in Packs : Collect(p)

Done == phase = "done" /\ UNCHANGED vars

Next == Main \/ (\E p \in Packs : Worker(p)) \/ Done

Spec == Init /\ [][Next]_vars

\* A provider call returns or times out, and no thread is starved.
FairSpec == Spec /\ WF_vars(Main) /\ \A p \in Packs : WF_vars(Worker(p))

--------------------------------------------------------------------------------
(* Properties.                                                             *)

TypeOK ==
    /\ phase \in {"shallow", "deep", "verify", "done"}
    /\ queue \subseteq Packs /\ inFlight \subseteq Packs
    /\ stage \in [Packs -> {"waiting", "lookup", "admit", "call", "store", "record", "finished"}]
    /\ profile \in [Packs -> Profiles] /\ fell \subseteq Packs
    /\ result \in [Packs -> Failed \cup {"ok", None}]
    /\ answer \in [Packs -> SUBSET Findings]
    /\ runs \in [Packs -> Seq([key : Routes, status : Failed \cup {"ok", "skipped"}])]
    /\ found \in [Packs -> SUBSET Findings]
    /\ verdict \in [Packs -> [Findings -> {None, "approved", "rejected", "superseded"}]]
    /\ circuit \in [Routes -> [failures : 0..MaxFailures, trigger : Failed \cup {None}]]
    /\ late \in [Routes -> Nat]

\* Bounded overshoot (_rolling_thread_pool_results): once a circuit is open, only
\* the calls that the other workers had in flight may still end on its route.
BoundedOvershoot == \A r \in Routes : late[r] <= Jobs - 1

Busy == {p \in Packs : stage[p] # "waiting"}
Calling(r) == {p \in Packs : stage[p] = "call" /\ Key(p) = r}

\* Why it is bounded: the busy workers are the packs in flight, at most Jobs of
\* them; the one whose outcome opens a circuit is not calling any more, and no
\* call starts on an open circuit.
PoolInv ==
    /\ IsFiniteSet(inFlight) /\ Cardinality(inFlight) <= Jobs
    /\ Busy \subseteq inFlight
    /\ \A r \in Routes :
          IF IsOpen(r) THEN late[r] + Cardinality(Calling(r)) <= Jobs - 1 ELSE late[r] = 0

\* No pack pays twice for one route: when a spent quota sends it to the
\* escalated profile and that resolves to the same route, it is skipped there.
NoRepeatedCall ==
    \A p \in Packs : stage[p] = "call" /\ phase # "verify" =>
        \A i \in DOMAIN runs[p] : runs[p][i].key = Key(p) => runs[p][i].status = "skipped"

\* A pack is left out only when no route is left: the circuit that the last run
\* met is open, and if a spent quota opened it the fallback was taken.
SkippedOnlyWhenExhausted ==
    \A p \in Packs : stage[p] = "finished" /\ Last(runs[p]).status = "skipped" =>
        /\ IsOpen(Last(runs[p]).key)
        /\ phase # "verify" /\ circuit[Last(runs[p]).key].trigger = "failed_quota" =>
              p \in fell \/ Escalated \in {None, profile[p]}

\* Whatever the order of the workers, every selected pack ends with a run, its
\* findings are those of an attempt that succeeded, and each finding is verified;
\* one that the verifier did not judge is superseded, neither kept nor rejected.
Accounted ==
    phase = "done" =>
        \A p \in Packs :
            /\ runs[p] # <<>>
            /\ \A f \in Findings : (f \in found[p]) <=> (verdict[p][f] # None)
            /\ Last(runs[p]).status # "ok" =>
                  \A f \in found[p] \ Known[p] : verdict[p][f] = "superseded"

\* Every selected pack is worked off.
Finishes == <>(phase = "done")
================================================================================
