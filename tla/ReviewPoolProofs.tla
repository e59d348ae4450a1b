--------------------------- MODULE ReviewPoolProofs ---------------------------
(* Theorems about the review pool, for every number of packs and workers, *)
(* every routing of profiles and every way a provider fails.              *)
EXTENDS ReviewPool, FiniteSetTheorems, SequenceTheorems, WellFoundedInduction, TLAPS

\* A set of naturals that is not empty has its Min in it, below the others.
LEMMA MinIsIn ==
    ASSUME NEW S, S \subseteq Nat, S # {}
    PROVE  Min(S) \in S /\ \A y \in S : Min(S) <= y
<1> DEFINE less == OpToRel(<, Nat)
<1>1. \A m, n \in Nat : m < n => <<m, n>> \in less
  BY DEF OpToRel
<1>2. IsWellFoundedOn(less, Nat)
  BY NatLessThanWellFounded
<1> HIDE DEF less
<1>3. PICK x \in S : \A y \in S : <<y, x>> \notin less
  BY <1>2, WFMin
<1>4. ASSUME NEW y \in S PROVE x <= y
  <2>1. x \in Nat /\ y \in Nat
    OBVIOUS
  <2>2. ~ (y < x)
    BY <1>1, <1>3, <2>1, Zenon
  <2> QED
    BY <2>1, <2>2
<1>5. \E m \in S : \A y \in S : m <= y
  BY <1>4
<1> QED
  BY <1>5, Zenon DEF Min

\* No more packs are submitted at the start of a call than there are workers:
\* counting the packs before it numbers the submitted packs from 0 to Jobs - 1.
LEMMA PacksAreNaturals == Packs \subseteq Nat /\ IsFiniteSet(Packs) /\ NPacks \in Nat /\ Jobs \in Nat \ {0}
<1>1. NPacks \in Nat /\ Jobs \in Nat \ {0}
  BY PoolAssumption
<1>2. IsFiniteSet(1..NPacks)
  BY <1>1, FS_Interval
<1> QED
  BY <1>1, <1>2 DEF Packs

LEMMA FirstJobsBounded ==
    ASSUME NEW ps \in SUBSET Packs
    PROVE  /\ FirstJobs(ps) \subseteq ps
           /\ IsFiniteSet(FirstJobs(ps))
           /\ Cardinality(FirstJobs(ps)) <= Jobs
<1> DEFINE before(p) == {o \in ps : o < p}
           rank == [p \in FirstJobs(ps) |-> Cardinality(before(p))]
<1>1. IsFiniteSet(ps)
  BY FS_Subset, PacksAreNaturals
<1>2. FirstJobs(ps) \subseteq ps
  BY DEF FirstJobs
<1>3. \A p \in ps : IsFiniteSet(before(p)) /\ Cardinality(before(p)) \in Nat
  <2> SUFFICES ASSUME NEW p \in ps PROVE IsFiniteSet(before(p)) /\ Cardinality(before(p)) \in Nat
    OBVIOUS
  <2>1. before(p) \in SUBSET ps
    OBVIOUS
  <2>2. IsFiniteSet(before(p))
    BY <1>1, <2>1, FS_Subset
  <2> QED
    BY <2>2, FS_CardinalityType
<1>4. rank \in [FirstJobs(ps) -> 0..(Jobs - 1)]
  <2> SUFFICES ASSUME NEW p \in FirstJobs(ps) PROVE Cardinality(before(p)) \in 0..(Jobs - 1)
    OBVIOUS
  <2>1. p \in ps /\ Cardinality(before(p)) < Jobs
    BY DEF FirstJobs
  <2> QED
    BY <1>3, <2>1, PacksAreNaturals
<1>n. ps \subseteq Nat
  BY PacksAreNaturals
<1>5. ASSUME NEW p \in ps, NEW q \in ps, p < q PROVE Cardinality(before(p)) < Cardinality(before(q))
  <2>1. before(p) \in SUBSET before(q)
    <3>1. \A o \in ps : o < p => o < q
      BY <1>5, <1>n
    <3> QED
      BY <3>1
  <2>2. p \in before(q) /\ p \notin before(p)
    BY <1>5, PacksAreNaturals
  <2>3. Cardinality(before(p)) <= Cardinality(before(q)) /\ Cardinality(before(p)) # Cardinality(before(q))
    BY <2>1, <2>2, <1>3, FS_Subset
  <2> QED
    BY <2>3, <1>3
<1>6. \A p, q \in FirstJobs(ps) : rank[p] = rank[q] => p = q
  <2> SUFFICES ASSUME NEW p \in FirstJobs(ps), NEW q \in FirstJobs(ps), p # q
               PROVE  rank[p] # rank[q]
    OBVIOUS
  <2>1. p \in ps /\ q \in ps /\ (p < q \/ q < p)
    <3>1. p \in ps /\ q \in ps
      BY <1>2
    <3>2. p \in Nat /\ q \in Nat
      BY <3>1, <1>n
    <3> QED
      BY <3>1, <3>2
  <2>2. Cardinality(before(p)) < Cardinality(before(q)) \/ Cardinality(before(q)) < Cardinality(before(p))
    BY <2>1, <1>5, Zenon
  <2>3. Cardinality(before(p)) \in Nat /\ Cardinality(before(q)) \in Nat
    BY <2>1, <1>3
  <2>4. Cardinality(before(p)) # Cardinality(before(q))
    BY <2>2, <2>3
  <2>5. rank[p] = Cardinality(before(p)) /\ rank[q] = Cardinality(before(q))
    OBVIOUS
  <2> QED
    BY <2>4, <2>5, Zenon
<1>7. rank \in Injection(FirstJobs(ps), 0..(Jobs - 1))
  BY <1>4, <1>6 DEF Injection, IsInjective
<1>8. IsFiniteSet(0..(Jobs - 1)) /\ Cardinality(0..(Jobs - 1)) = Jobs
  <2>1. 0 \in Int /\ Jobs - 1 \in Int /\ 0 <= Jobs - 1
    BY PacksAreNaturals
  <2>2. Cardinality(0..(Jobs - 1)) = IF 0 > Jobs - 1 THEN 0 ELSE (Jobs - 1) - 0 + 1
    BY <2>1, FS_Interval
  <2> QED
    BY <2>1, <2>2, FS_Interval, PacksAreNaturals
<1> HIDE DEF rank
<1> QED
  BY <1>2, <1>7, <1>8, FS_Injection

--------------------------------------------------------------------------------
(* Types.                                                                  *)

LEMMA WorkType == ASSUME TypeOK, NEW ph PROVE Work(ph) \subseteq Packs
  BY PoolAssumption DEF Work, TypeOK

LEMMA KeyType == ASSUME NEW p \in Packs PROVE TypeOK => Key(p) \in Routes
  BY DEF TypeOK, Key, Routes

LEMMA StagesType == ASSUME NEW ps \in SUBSET Packs PROVE Submitted(ps) \in [Packs -> {"waiting", "lookup"}]
  BY DEF Submitted

\* TypeOK with what it takes to be inductive: a circuit that is closed has room
\* for a failure, and a worker that is to record an outcome has one.
TypeInv ==
    /\ TypeOK
    /\ \A r \in Routes : ~ IsOpen(r) => circuit[r].failures < MaxFailures
    /\ \A p \in Packs : stage[p] = "record" => result[p] \in Failed \cup {"ok"}

LEMMA InitTyped == Init => TypeInv
<1> SUFFICES ASSUME Init PROVE TypeInv
  OBVIOUS
<1>1. FirstJobs(Shallow) \subseteq Packs
  BY FirstJobsBounded, PoolAssumption
<1>2. stage \in [Packs -> {"waiting", "lookup"}]
  BY <1>1, StagesType DEF Init
<1>3. MaxFailures \in Nat \ {0}
  BY PoolAssumption
<1>4. circuit \in [Routes -> [failures : 0..MaxFailures, trigger : Failed \cup {None}]]
  BY <1>3 DEF Init
<1>5. runs \in [Packs -> Seq([key : Routes, status : Failed \cup {"ok", "skipped"}])]
  BY DEF Init
<1>6. TypeOK
  BY <1>1, <1>2, <1>4, <1>5, PoolAssumption DEF Init, TypeOK
<1>7. \A r \in Routes : circuit[r].failures < MaxFailures
  BY <1>3 DEF Init
<1>8. \A p \in Packs : stage[p] # "record"
  BY <1>2
<1> QED
  BY <1>6, <1>7, <1>8 DEF TypeInv

\* The end of an attempt touches the worker and its runs only.
LEMMA EndAttemptTyped ==
    ASSUME NEW p \in Packs, NEW status \in Failed \cup {"ok", "skipped"}, NEW cause,
           TypeOK, EndAttempt(p, status, cause)
    PROVE  /\ runs' \in [Packs -> Seq([key : Routes, status : Failed \cup {"ok", "skipped"}])]
           /\ profile' \in [Packs -> Profiles] /\ fell' \subseteq Packs
           /\ \E st \in {"lookup", "finished"} : stage' = [stage EXCEPT ![p] = st]
<1> DEFINE Run == [key : Routes, status : Failed \cup {"ok", "skipped"}]
           run == [key |-> Key(p), status |-> status]
<1>1. run \in Run
  BY KeyType
<1>2. runs \in [Packs -> Seq(Run)] /\ runs' = [runs EXCEPT ![p] = Append(@, run)]
  BY DEF EndAttempt, TypeOK
<1>3. stage \in [Packs -> {"waiting", "lookup", "admit", "call", "store", "record", "finished"}]
      /\ profile \in [Packs -> Profiles] /\ fell \subseteq Packs
  BY DEF TypeOK
<1> HIDE DEF Run, run
<1>4. runs' \in [Packs -> Seq(Run)]
  BY <1>1, <1>2
<1>5. CASE FallsBack(p, cause)
  <2>1. Escalated \in Profiles
    BY <1>5, PoolAssumption DEF FallsBack
  <2>2. stage' = [stage EXCEPT ![p] = "lookup"] /\ profile' = [profile EXCEPT ![p] = Escalated]
        /\ fell' = fell \cup {p}
    BY <1>5 DEF EndAttempt
  <2>3. profile' \in [Packs -> Profiles] /\ fell' \subseteq Packs
    BY <1>3, <2>1, <2>2
  <2> QED
    BY <1>4, <2>2, <2>3 DEF Run
<1>6. CASE ~ FallsBack(p, cause)
  <2>1. stage' = [stage EXCEPT ![p] = "finished"] /\ profile' = profile /\ fell' = fell
    BY <1>6 DEF EndAttempt
  <2> QED
    BY <1>3, <1>4, <2>1 DEF Run
<1> QED
  BY <1>5, <1>6

LEMMA KeepTyped ==
    ASSUME NEW p \in Packs, NEW status, NEW reported \in SUBSET Findings, TypeOK, Keep(p, status, reported)
    PROVE  /\ found' \in [Packs -> SUBSET Findings]
           /\ verdict' \in [Packs -> [Findings -> {None, "approved", "rejected", "superseded"}]]
<1> DEFINE V == {None, "approved", "rejected", "superseded"}
<1>1. found \in [Packs -> SUBSET Findings] /\ verdict \in [Packs -> [Findings -> V]]
  BY DEF TypeOK
<1>2. CASE phase = "verify"
  <2> DEFINE row == [f \in Findings |-> IF f \in Misses(p) THEN Judged(status, f \in reported) ELSE verdict[p][f]]
  <2>1. verdict' = [verdict EXCEPT ![p] = row] /\ found' = found
    BY <1>2 DEF Keep
  <2>2. \A f \in Findings : Judged(status, f \in reported) \in V /\ verdict[p][f] \in V
    BY <1>1 DEF Judged
  <2>3. row \in [Findings -> V]
    BY <2>2
  <2> HIDE DEF row
  <2> QED
    BY <1>1, <2>1, <2>3
<1>3. CASE phase # "verify"
  <2>1. verdict' = verdict /\ found' = [found EXCEPT ![p] = IF status = "ok" THEN reported ELSE {}]
    BY <1>3 DEF Keep
  <2> QED
    BY <1>1, <2>1
<1> QED
  BY <1>2, <1>3

\* What a step of a worker changes of its stage keeps the stages typed.
LEMMA StageStep ==
    ASSUME NEW p \in Packs, TypeOK,
           NEW st \in {"waiting", "lookup", "admit", "call", "store", "record", "finished"},
           stage' = [stage EXCEPT ![p] = st]
    PROVE  /\ stage' \in [Packs -> {"waiting", "lookup", "admit", "call", "store", "record", "finished"}]
           /\ stage'[p] = st
           /\ \A o \in Packs \ {p} : stage'[o] = stage[o]
  BY DEF TypeOK

LEMMA AfterCallTyped ==
    ASSUME NEW c \in [failures : 0..MaxFailures, trigger : Failed \cup {None}],
           c.trigger = None => c.failures < MaxFailures,
           NEW status \in Failed \cup {"ok"}
    PROVE  /\ AfterCall(c, status) \in [failures : 0..MaxFailures, trigger : Failed \cup {None}]
           /\ AfterCall(c, status).trigger = None => AfterCall(c, status).failures < MaxFailures
           /\ c.trigger # None => AfterCall(c, status) = c
<1> DEFINE d == AfterCall(c, status)
<1>1. MaxFailures \in Nat \ {0} /\ None \notin Failed
  BY PoolAssumption
<1>2. Terminal \subseteq Failed /\ Retryable \subseteq Failed
  BY DEF Failed
<1>c. c.failures \in 0..MaxFailures /\ c.trigger \in Failed \cup {None}
  OBVIOUS
<1>3. CASE c.trigger # None
  BY <1>3 DEF AfterCall
<1>4. CASE c.trigger = None /\ status \in Terminal
  <2>1. d = [c EXCEPT !.trigger = status]
    BY <1>4 DEF AfterCall
  <2>2. d = [failures |-> c.failures, trigger |-> status]
    BY <2>1
  <2> HIDE DEF d
  <2>3. status # None /\ status \in Failed
    BY <1>1, <1>2, <1>4
  <2> QED
    BY <2>2, <2>3, <1>4, <1>c DEF d
<1>5. CASE c.trigger = None /\ status \in Retryable /\ status \notin Terminal
  <2>0. c.failures < MaxFailures
    BY <1>5
  <2>1. c.failures + 1 \in 0..MaxFailures
    BY <1>1, <1>c, <2>0
  <2>2. d = [failures |-> c.failures + 1,
             trigger  |-> IF c.failures + 1 >= MaxFailures THEN status ELSE None]
    BY <1>5 DEF AfterCall
  <2>3. d.failures = c.failures + 1
        /\ d.trigger = IF c.failures + 1 >= MaxFailures THEN status ELSE None
    BY <2>2
  <2>4. status \in Failed /\ status # None
    BY <1>1, <1>2, <1>5
  <2>5. d \in [failures : 0..MaxFailures, trigger : Failed \cup {None}]
    BY <2>1, <2>2, <2>4
  <2>6. d.trigger = None => d.failures < MaxFailures
    BY <2>1, <2>3, <2>4, <1>1
  <2> QED
    BY <1>5, <2>5, <2>6
<1>6. CASE c.trigger = None /\ status \notin Terminal /\ status \notin Retryable
  <2>1. d = [c EXCEPT !.failures = 0]
    BY <1>6 DEF AfterCall
  <2>2. d = [failures |-> 0, trigger |-> c.trigger]
    BY <2>1
  <2> QED
    BY <2>2, <1>1, <1>6, <1>c
<1> QED
  BY <1>3, <1>4, <1>5, <1>6

LEMMA CollectTyped == ASSUME TypeInv, NEW p \in Packs, Collect(p) PROVE TypeInv'
<1> DEFINE next == IF queue = {} THEN {} ELSE {Min(queue)}
<1>1. next \subseteq Packs
  <2>1. CASE queue # {}
    <3>1. queue \subseteq Nat /\ queue \subseteq Packs
      BY PacksAreNaturals DEF TypeInv, TypeOK
    <3>2. Min(queue) \in queue
      BY <2>1, <3>1, MinIsIn
    <3> QED
      BY <2>1, <3>1, <3>2
  <2> QED
    BY <2>1
<1>2. /\ inFlight' = (inFlight \ {p}) \cup next
      /\ queue' = queue \ next
      /\ stage' = [o \in Packs |-> IF o \in next THEN "lookup" ELSE IF o = p THEN "waiting" ELSE stage[o]]
  BY DEF Collect
<1>3. UNCHANGED <<phase, attempt, outcomes, circuit, ghosts>>
  BY DEF Collect
<1> HIDE DEF next
<1>4. TypeOK'
  BY <1>1, <1>2, <1>3 DEF TypeInv, TypeOK, attempt, outcomes, ghosts
<1>5. \A o \in Packs : stage'[o] = "record" => stage[o] = "record"
  BY <1>2
<1> QED
  BY <1>3, <1>4, <1>5 DEF TypeInv, IsOpen, attempt

LEMMA NextPhaseTyped == ASSUME TypeInv, NextPhase PROVE TypeInv'
<1> DEFINE first == FirstJobs(Work(phase'))
<1>1. Work(phase') \subseteq Packs /\ first \subseteq Packs
  BY WorkType, FirstJobsBounded DEF TypeInv
<1>2. stage' \in [Packs -> {"waiting", "lookup"}]
  BY <1>1, StagesType DEF NextPhase
<1>3. /\ phase' \in {"deep", "verify", "done"}
      /\ inFlight' = first /\ queue' = Work(phase') \ first
      /\ profile' \in [Packs -> Profiles]
      /\ UNCHANGED <<fell, result, answer, outcomes, circuit, ghosts>>
  BY PoolAssumption DEF NextPhase, TypeInv, TypeOK
<1> HIDE DEF first
<1>4. TypeOK'
  BY <1>1, <1>2, <1>3 DEF TypeInv, TypeOK, outcomes, ghosts
<1>5. \A o \in Packs : stage'[o] # "record"
  BY <1>2
<1> QED
  BY <1>3, <1>4, <1>5 DEF TypeInv, IsOpen

\* A step of a worker that records nothing and gets no answer.
LEMMA QuietStepTyped ==
    ASSUME TypeInv, NEW p \in Packs, NEW st \in {"lookup", "admit", "call", "finished"},
           stage' = [stage EXCEPT ![p] = st],
           UNCHANGED <<pool, result, answer, circuit, ghosts>>,
           profile' \in [Packs -> Profiles], fell' \subseteq Packs,
           runs' \in [Packs -> Seq([key : Routes, status : Failed \cup {"ok", "skipped"}])],
           found' \in [Packs -> SUBSET Findings],
           verdict' \in [Packs -> [Findings -> {None, "approved", "rejected", "superseded"}]]
    PROVE  TypeInv'
<1>1. TypeOK
  BY DEF TypeInv
<1>2. /\ stage' \in [Packs -> {"waiting", "lookup", "admit", "call", "store", "record", "finished"}]
      /\ stage'[p] = st
      /\ \A o \in Packs \ {p} : stage'[o] = stage[o]
  BY <1>1, StageStep
<1>3. TypeOK'
  BY <1>1, <1>2 DEF TypeOK, pool, ghosts
<1>4. \A o \in Packs : stage'[o] = "record" => stage[o] = "record"
  BY <1>2
<1> QED
  BY <1>3, <1>4 DEF TypeInv, IsOpen

LEMMA RejectProfileTyped == ASSUME TypeInv, NEW p \in Packs, RejectProfile(p) PROVE TypeInv'
<1>1. TypeOK
  BY DEF TypeInv
<1>2. EndAttempt(p, "failed_provider", "failed_provider") /\ UNCHANGED <<pool, result, answer, found, circuit, ghosts>>
  BY DEF RejectProfile
<1>3. "failed_provider" \in Failed \cup {"ok", "skipped"}
  BY DEF Failed, Retryable
<1>4. /\ runs' \in [Packs -> Seq([key : Routes, status : Failed \cup {"ok", "skipped"}])]
      /\ profile' \in [Packs -> Profiles] /\ fell' \subseteq Packs
      /\ \E st \in {"lookup", "finished"} : stage' = [stage EXCEPT ![p] = st]
  BY <1>1, <1>2, <1>3, EndAttemptTyped
<1>5. verdict' \in [Packs -> [Findings -> {None, "approved", "rejected", "superseded"}]]
  <2> DEFINE V == {None, "approved", "rejected", "superseded"}
             row == [f \in Findings |-> IF f \in found[p] THEN Judged("failed_provider", FALSE) ELSE verdict[p][f]]
  <2>1. verdict \in [Packs -> [Findings -> V]]
    BY <1>1 DEF TypeOK
  <2>2. row \in [Findings -> V]
    BY <2>1 DEF Judged
  <2>3. verdict' = verdict \/ verdict' = [verdict EXCEPT ![p] = row]
    BY DEF RejectProfile
  <2> HIDE DEF row
  <2> QED
    BY <2>1, <2>2, <2>3
<1>6. found' \in [Packs -> SUBSET Findings]
  BY <1>1, <1>2 DEF TypeOK
<1> QED
  BY <1>2, <1>4, <1>5, <1>6, QuietStepTyped

LEMMA ReadReviewTyped == ASSUME TypeInv, NEW p \in Packs, ReadReview(p) PROVE TypeInv'
<1>1. TypeOK /\ UNCHANGED <<pool, result, answer, circuit, ghosts>>
  BY DEF TypeInv, ReadReview
<1>2. CASE ReviewIsCached(p)
  <2>1. PICK reported \in SUBSET Findings : Keep(p, "ok", reported)
    BY <1>2 DEF ReadReview
  <2>2. EndAttempt(p, "ok", "ok")
    BY <1>2 DEF ReadReview
  <2>3. /\ found' \in [Packs -> SUBSET Findings]
        /\ verdict' \in [Packs -> [Findings -> {None, "approved", "rejected", "superseded"}]]
    BY <1>1, <2>1, KeepTyped
  <2>4. /\ runs' \in [Packs -> Seq([key : Routes, status : Failed \cup {"ok", "skipped"}])]
        /\ profile' \in [Packs -> Profiles] /\ fell' \subseteq Packs
        /\ \E st \in {"lookup", "finished"} : stage' = [stage EXCEPT ![p] = st]
    BY <1>1, <2>2, EndAttemptTyped
  <2> QED
    BY <1>1, <2>3, <2>4, QuietStepTyped
<1>3. CASE ~ ReviewIsCached(p)
  <2>1. stage' = [stage EXCEPT ![p] = "admit"] /\ UNCHANGED <<profile, fell, outcomes>>
    BY <1>3 DEF ReadReview
  <2>2. /\ runs' \in [Packs -> Seq([key : Routes, status : Failed \cup {"ok", "skipped"}])]
        /\ profile' \in [Packs -> Profiles] /\ fell' \subseteq Packs
        /\ found' \in [Packs -> SUBSET Findings]
        /\ verdict' \in [Packs -> [Findings -> {None, "approved", "rejected", "superseded"}]]
    BY <1>1, <2>1 DEF TypeOK, outcomes
  <2> QED
    BY <1>1, <2>1, <2>2, QuietStepTyped
<1> QED
  BY <1>2, <1>3

LEMMA ReadVerificationsTyped == ASSUME TypeInv, NEW p \in Packs, ReadVerifications(p) PROVE TypeInv'
<1>1. TypeOK /\ UNCHANGED <<pool, result, answer, found, circuit, ghosts>>
  BY DEF TypeInv, ReadVerifications
<1>2. /\ found' \in [Packs -> SUBSET Findings]
      /\ verdict' \in [Packs -> [Findings -> {None, "approved", "rejected", "superseded"}]]
  <2> DEFINE V == {None, "approved", "rejected", "superseded"}
  <2>1. PICK approved \in SUBSET (found[p] \cap Known[p]) :
          verdict' = [verdict EXCEPT ![p] = [f \in Findings |->
                        IF f \in found[p] \cap Known[p] THEN Judged("ok", f \in approved) ELSE @[f]]]
    BY DEF ReadVerifications
  <2> DEFINE row == [f \in Findings |-> IF f \in found[p] \cap Known[p]
                                        THEN Judged("ok", f \in approved) ELSE verdict[p][f]]
  <2>2. verdict \in [Packs -> [Findings -> V]]
    BY <1>1 DEF TypeOK
  <2>3. row \in [Findings -> V]
    BY <2>2 DEF Judged
  <2>4. verdict' = [verdict EXCEPT ![p] = row]
    BY <2>1
  <2> HIDE DEF row
  <2> QED
    BY <1>1, <2>2, <2>3, <2>4 DEF TypeOK
<1>3. CASE Misses(p) = {}
  <2>1. EndAttempt(p, "ok", "ok")
    BY <1>3 DEF ReadVerifications
  <2>2. /\ runs' \in [Packs -> Seq([key : Routes, status : Failed \cup {"ok", "skipped"}])]
        /\ profile' \in [Packs -> Profiles] /\ fell' \subseteq Packs
        /\ \E st \in {"lookup", "finished"} : stage' = [stage EXCEPT ![p] = st]
    BY <1>1, <2>1, EndAttemptTyped
  <2> QED
    BY <1>1, <1>2, <2>2, QuietStepTyped
<1>4. CASE Misses(p) # {}
  <2>1. stage' = [stage EXCEPT ![p] = "admit"] /\ UNCHANGED <<profile, fell, runs>>
    BY <1>4 DEF ReadVerifications
  <2>2. /\ runs' \in [Packs -> Seq([key : Routes, status : Failed \cup {"ok", "skipped"}])]
        /\ profile' \in [Packs -> Profiles] /\ fell' \subseteq Packs
    BY <1>1, <2>1 DEF TypeOK
  <2> QED
    BY <1>1, <1>2, <2>1, <2>2, QuietStepTyped
<1> QED
  BY <1>3, <1>4

LEMMA AdmitTyped == ASSUME TypeInv, NEW p \in Packs, Admit(p) PROVE TypeInv'
<1>1. TypeOK /\ UNCHANGED <<pool, result, answer, circuit, ghosts>>
  BY DEF TypeInv, Admit
<1>2. CASE IsOpen(Key(p))
  <2>1. EndAttempt(p, "skipped", SkipCause(p)) /\ Keep(p, "skipped", {})
    BY <1>2 DEF Admit
  <2>2. /\ found' \in [Packs -> SUBSET Findings]
        /\ verdict' \in [Packs -> [Findings -> {None, "approved", "rejected", "superseded"}]]
    BY <1>1, <2>1, KeepTyped
  <2>3. /\ runs' \in [Packs -> Seq([key : Routes, status : Failed \cup {"ok", "skipped"}])]
        /\ profile' \in [Packs -> Profiles] /\ fell' \subseteq Packs
        /\ \E st \in {"lookup", "finished"} : stage' = [stage EXCEPT ![p] = st]
    BY <1>1, <2>1, EndAttemptTyped
  <2> QED
    BY <1>1, <2>2, <2>3, QuietStepTyped
<1>3. CASE ~ IsOpen(Key(p))
  <2>1. stage' = [stage EXCEPT ![p] = "call"] /\ UNCHANGED <<profile, fell, outcomes>>
    BY <1>3 DEF Admit
  <2>2. /\ runs' \in [Packs -> Seq([key : Routes, status : Failed \cup {"ok", "skipped"}])]
        /\ profile' \in [Packs -> Profiles] /\ fell' \subseteq Packs
        /\ found' \in [Packs -> SUBSET Findings]
        /\ verdict' \in [Packs -> [Findings -> {None, "approved", "rejected", "superseded"}]]
    BY <1>1, <2>1 DEF TypeOK, outcomes
  <2> QED
    BY <1>1, <2>1, <2>2, QuietStepTyped
<1> QED
  BY <1>2, <1>3

\* An answer or a failure of the provider.
LEMMA AnswerTyped == ASSUME TypeInv, NEW p \in Packs, Answer(p) PROVE TypeInv'
<1>1. TypeOK /\ UNCHANGED <<pool, profile, fell, outcomes, circuit>>
  BY DEF TypeInv, Answer
<1>2. \/ result' = [result EXCEPT ![p] = "ok"]
         /\ \E reported \in SUBSET Findings : answer' = [answer EXCEPT ![p] = reported]
      \/ \E status \in Failed :
            /\ result' = [result EXCEPT ![p] = status] /\ answer' = [answer EXCEPT ![p] = {}]
  <2>1. Misses(p) \subseteq Findings
    BY <1>1 DEF Misses, TypeOK
  <2> QED
    BY <2>1, PoolAssumption DEF Answer
<1>3. Key(p) \in Routes
  BY <1>1, KeyType
<1>4. /\ result' \in [Packs -> Failed \cup {"ok", None}]
      /\ result'[p] \in Failed \cup {"ok"} /\ \A o \in Packs \ {p} : result'[o] = result[o]
      /\ answer' \in [Packs -> SUBSET Findings]
  <2>1. /\ result \in [Packs -> Failed \cup {"ok", None}]
        /\ answer \in [Packs -> SUBSET Findings]
    BY <1>1 DEF TypeOK
  <2>2. CASE result' = [result EXCEPT ![p] = "ok"]
             /\ \E reported \in SUBSET Findings : answer' = [answer EXCEPT ![p] = reported]
    BY <2>1, <2>2
  <2>3. ASSUME NEW status \in Failed, result' = [result EXCEPT ![p] = status],
               answer' = [answer EXCEPT ![p] = {}]
        PROVE  /\ result' \in [Packs -> Failed \cup {"ok", None}]
               /\ result'[p] \in Failed \cup {"ok"} /\ \A o \in Packs \ {p} : result'[o] = result[o]
               /\ answer' \in [Packs -> SUBSET Findings]
    BY <1>3, <2>1, <2>3
  <2> QED
    BY <1>2, <2>2, <2>3
<1>5. late' \in [Routes -> Nat]
  <2>1. late \in [Routes -> Nat]
    BY <1>1 DEF TypeOK
  <2>2. late' = [late EXCEPT ![Key(p)] = @ + (IF IsOpen(Key(p)) THEN 1 ELSE 0)]
    BY DEF Answer
  <2> QED
    BY <1>3, <2>1, <2>2
<1>6. PICK st \in {"store", "record"} : stage' = [stage EXCEPT ![p] = st]
  BY DEF Answer
<1>7. /\ stage' \in [Packs -> {"waiting", "lookup", "admit", "call", "store", "record", "finished"}]
      /\ \A o \in Packs \ {p} : stage'[o] = stage[o]
  BY <1>1, <1>6, StageStep
<1>8. TypeOK'
  BY <1>1, <1>4, <1>5, <1>7 DEF TypeOK, pool, outcomes
<1> QED
  BY <1>1, <1>4, <1>7, <1>8 DEF TypeInv, IsOpen

LEMMA StoreTyped == ASSUME TypeInv, NEW p \in Packs, Store(p) PROVE TypeInv'
<1>1. TypeOK /\ UNCHANGED <<pool, profile, fell, answer, outcomes, circuit, ghosts>>
  BY DEF TypeInv, Store
<1>2. PICK status \in Failed \cup {"ok"} : result' = [result EXCEPT ![p] = status]
  BY PoolAssumption DEF Store
<1>3. stage' = [stage EXCEPT ![p] = "record"]
  BY DEF Store
<1>4. /\ stage' \in [Packs -> {"waiting", "lookup", "admit", "call", "store", "record", "finished"}]
      /\ \A o \in Packs \ {p} : stage'[o] = stage[o]
  BY <1>1, <1>3, StageStep
<1>5. /\ result' \in [Packs -> Failed \cup {"ok", None}]
      /\ result'[p] \in Failed \cup {"ok"} /\ \A o \in Packs \ {p} : result'[o] = result[o]
  BY <1>1, <1>2 DEF TypeOK
<1>6. TypeOK'
  BY <1>1, <1>4, <1>5 DEF TypeOK, pool, outcomes, ghosts
<1> QED
  BY <1>1, <1>4, <1>5, <1>6 DEF TypeInv, IsOpen

LEMMA RecordTyped == ASSUME TypeInv, NEW p \in Packs, Record(p) PROVE TypeInv'
<1>1. TypeOK /\ UNCHANGED <<pool, result, answer, ghosts>>
  BY DEF TypeInv, Record
<1>2. result[p] \in Failed \cup {"ok"} /\ answer[p] \in SUBSET Findings
  BY DEF TypeInv, TypeOK, Record
<1>3. EndAttempt(p, result[p], result[p]) /\ Keep(p, result[p], answer[p])
  BY DEF Record
<1>4. /\ found' \in [Packs -> SUBSET Findings]
      /\ verdict' \in [Packs -> [Findings -> {None, "approved", "rejected", "superseded"}]]
  BY <1>1, <1>2, <1>3, KeepTyped
<1>5. /\ runs' \in [Packs -> Seq([key : Routes, status : Failed \cup {"ok", "skipped"}])]
      /\ profile' \in [Packs -> Profiles] /\ fell' \subseteq Packs
      /\ \E st \in {"lookup", "finished"} : stage' = [stage EXCEPT ![p] = st]
  BY <1>1, <1>2, <1>3, EndAttemptTyped
<1>6. /\ circuit' \in [Routes -> [failures : 0..MaxFailures, trigger : Failed \cup {None}]]
      /\ \A r \in Routes : circuit'[r].trigger = None => circuit'[r].failures < MaxFailures
  <2> DEFINE C == [failures : 0..MaxFailures, trigger : Failed \cup {None}]
             d == AfterCall(circuit[Key(p)], result[p])
  <2>1. circuit \in [Routes -> C] /\ Key(p) \in Routes
    BY <1>1, KeyType DEF TypeOK
  <2>2. circuit' = [circuit EXCEPT ![Key(p)] = d]
    BY DEF Record
  <2>3. \A r \in Routes : circuit[r].trigger = None => circuit[r].failures < MaxFailures
    BY DEF TypeInv, IsOpen
  <2>4. d \in C /\ (d.trigger = None => d.failures < MaxFailures)
    BY <1>2, <2>1, <2>3, AfterCallTyped
  <2> HIDE DEF C, d
  <2>5. circuit' \in [Routes -> C]
    BY <2>1, <2>2, <2>4
  <2>6. \A r \in Routes : circuit'[r] = IF r = Key(p) THEN d ELSE circuit[r]
    BY <2>1, <2>2
  <2> QED
    BY <2>3, <2>4, <2>5, <2>6 DEF C
<1>7. /\ stage' \in [Packs -> {"waiting", "lookup", "admit", "call", "store", "record", "finished"}]
      /\ \A o \in Packs : stage'[o] = "record" => stage[o] = "record"
  BY <1>1, <1>5, StageStep
<1>8. TypeOK'
  BY <1>1, <1>4, <1>5, <1>6, <1>7 DEF TypeOK, pool, ghosts
<1> QED
  BY <1>1, <1>6, <1>7, <1>8 DEF TypeInv, IsOpen

LEMMA NextTyped == TypeInv /\ [Next]_vars => TypeInv'
<1> SUFFICES ASSUME TypeInv, [Next]_vars PROVE TypeInv'
  OBVIOUS
<1>1. CASE Main
  BY <1>1, CollectTyped, NextPhaseTyped DEF Main
<1>2. CASE \E p \in Packs : Worker(p)
  <2>1. PICK p \in Packs : Worker(p)
    BY <1>2
  <2> QED
    BY <2>1, RejectProfileTyped, ReadReviewTyped, ReadVerificationsTyped, AdmitTyped,
       AnswerTyped, StoreTyped, RecordTyped DEF Worker
<1>3. CASE UNCHANGED vars
  BY <1>3 DEF vars, pool, attempt, outcomes, ghosts, TypeInv, TypeOK, IsOpen
<1> QED
  BY <1>1, <1>2, <1>3 DEF Next, Done

\* The state of the pool, of the circuits and of the outcomes is well typed: in
\* particular no circuit counts failures past the limit, whatever fails how.
THEOREM TypeCorrect == Spec => []TypeOK
<1>1. Spec => []TypeInv
  BY InitTyped, NextTyped, PTL DEF Spec
<1>2. TypeInv => TypeOK
  BY DEF TypeInv
<1> QED
  BY <1>1, <1>2, PTL

--------------------------------------------------------------------------------
(* The overshoot of an open circuit.                                       *)

\* The types that count the calls.
LEMMA CountTypes ==
    ASSUME TypeInv
    PROVE  /\ stage \in [Packs -> {"waiting", "lookup", "admit", "call", "store", "record", "finished"}]
           /\ profile \in [Packs -> Profiles]
           /\ late \in [Routes -> Nat] /\ circuit \in [Routes -> [failures : 0..MaxFailures, trigger : Failed \cup {None}]]
           /\ \A r \in Routes : Calling(r) \subseteq Packs /\ IsFiniteSet(Calling(r)) /\ Cardinality(Calling(r)) \in Nat
<1>1. \A r : Calling(r) \in SUBSET Packs
  BY DEF Calling
<1>2. \A r : IsFiniteSet(Calling(r))
  BY <1>1, PacksAreNaturals, FS_Subset
<1>3. \A r : Cardinality(Calling(r)) \in Nat
  BY <1>2, FS_CardinalityType
<1> QED
  BY <1>1, <1>2, <1>3 DEF TypeInv, TypeOK

LEMMA InitBounded == Init => PoolInv
<1> SUFFICES ASSUME Init PROVE PoolInv
  OBVIOUS
<1>1. Shallow \in SUBSET Packs
  BY PoolAssumption
<1>2. IsFiniteSet(inFlight) /\ Cardinality(inFlight) <= Jobs
  BY <1>1, FirstJobsBounded DEF Init
<1>3. Busy \subseteq inFlight
  BY DEF Init, Busy, Submitted
<1>4. \A r \in Routes : ~ IsOpen(r) /\ late[r] = 0
  BY DEF Init, IsOpen
<1> QED
  BY <1>2, <1>3, <1>4 DEF PoolInv

LEMMA CollectBounded == ASSUME TypeInv, PoolInv, NEW p \in Packs, Collect(p) PROVE PoolInv'
<1> DEFINE next == IF queue = {} THEN {} ELSE {Min(queue)}
<1>1. /\ inFlight' = (inFlight \ {p}) \cup next
      /\ stage' = [o \in Packs |-> IF o \in next THEN "lookup" ELSE IF o = p THEN "waiting" ELSE stage[o]]
      /\ UNCHANGED <<attempt, circuit, ghosts>>
  BY DEF Collect
<1>2. p \in inFlight /\ IsFiniteSet(inFlight) /\ Cardinality(inFlight) \in Nat /\ Cardinality(inFlight) <= Jobs
  <2>1. p \in Busy
    BY DEF Collect, Busy
  <2> QED
    BY <2>1, FS_CardinalityType DEF PoolInv
<1>3. IsFiniteSet(inFlight \ {p}) /\ Cardinality(inFlight \ {p}) = Cardinality(inFlight) - 1
  BY <1>2, FS_RemoveElement
<1>4. IsFiniteSet(inFlight') /\ Cardinality(inFlight') <= Jobs
  <2>1. CASE queue = {}
    <3>1. inFlight' = inFlight \ {p}
      BY <1>1, <2>1
    <3> QED
      BY <1>2, <1>3, <3>1, PacksAreNaturals
  <2>2. CASE queue # {}
    <3>1. inFlight' = (inFlight \ {p}) \cup {Min(queue)}
      BY <1>1, <2>2
    <3>2. IsFiniteSet(inFlight') /\ (Cardinality(inFlight') = Cardinality(inFlight \ {p})
                                      \/ Cardinality(inFlight') = Cardinality(inFlight \ {p}) + 1)
      BY <1>3, <3>1, FS_AddElement
    <3> QED
      BY <1>2, <1>3, <3>2, PacksAreNaturals
  <2> QED
    BY <2>1, <2>2
<1> HIDE DEF next
<1>5. Busy' \subseteq inFlight'
  BY <1>1 DEF Busy, PoolInv
<1>6. ASSUME NEW r \in Routes PROVE Calling(r)' \in SUBSET Calling(r)
  BY <1>1 DEF Calling, Key, attempt
<1>7. ASSUME NEW r \in Routes
      PROVE  IF IsOpen(r)' THEN late'[r] + Cardinality(Calling(r)') <= Jobs - 1 ELSE late'[r] = 0
  <2>1. Cardinality(Calling(r)') <= Cardinality(Calling(r)) /\ Cardinality(Calling(r)') \in Nat
    BY <1>6, CountTypes, FS_Subset, FS_CardinalityType
  <2>2. late'[r] = late[r] /\ IsOpen(r)' = IsOpen(r) /\ late[r] \in Nat
    BY <1>1, CountTypes DEF ghosts, IsOpen
  <2> QED
    BY <2>1, <2>2, CountTypes, PacksAreNaturals DEF PoolInv
<1> QED
  BY <1>4, <1>5, <1>7 DEF PoolInv

LEMMA NextPhaseBounded == ASSUME TypeInv, PoolInv, NextPhase PROVE PoolInv'
<1>1. Work(phase') \in SUBSET Packs
  BY WorkType DEF TypeInv
<1>2. IsFiniteSet(inFlight') /\ Cardinality(inFlight') <= Jobs
  BY <1>1, FirstJobsBounded DEF NextPhase
<1>3. Busy' \subseteq inFlight'
  BY DEF NextPhase, Busy, Submitted
<1>4. \A r \in Routes : Calling(r) = {} /\ Calling(r)' = {}
  <2>1. \A o \in Packs : stage[o] = "waiting"
    BY DEF PoolInv, NextPhase, Busy
  <2>2. \A o \in Packs : stage'[o] # "call"
    BY DEF NextPhase, Submitted
  <2> QED
    BY <2>1, <2>2 DEF Calling
<1>5. late' = late /\ circuit' = circuit
  BY DEF NextPhase, ghosts
<1>6. \A r \in Routes : IF IsOpen(r)' THEN late'[r] + Cardinality(Calling(r)') <= Jobs - 1 ELSE late'[r] = 0
  BY <1>4, <1>5 DEF PoolInv, IsOpen
<1> QED
  BY <1>2, <1>3, <1>6 DEF PoolInv

\* A step of a busy worker keeps the pack in flight; it cannot start a call of an
\* open route, and a call that ends on one is counted.
LEMMA WorkerBounded ==
    ASSUME TypeInv, PoolInv, NEW p \in Packs, NEW st, stage' = [stage EXCEPT ![p] = st], stage[p] # "waiting",
           inFlight' = inFlight, \A o \in Packs \ {p} : profile'[o] = profile[o],
           \A r \in Routes : IF IsOpen(r)'
                             THEN /\ p \notin Calling(r)'
                                  /\ \/ IsOpen(r) /\ late'[r] = late[r]
                                     \/ IsOpen(r) /\ p \in Calling(r) /\ late'[r] = late[r] + 1
                                     \/ ~ IsOpen(r) /\ p \notin Calling(r) /\ late'[r] = 0
                             ELSE late'[r] = 0
    PROVE  PoolInv'
<1>1. Busy' \subseteq inFlight'
  BY DEF PoolInv, Busy, TypeInv, TypeOK
<1>2. ASSUME NEW r \in Routes, IsOpen(r)'
      PROVE  late'[r] + Cardinality(Calling(r)') <= Jobs - 1
  <2>1. Calling(r)' \in SUBSET (Calling(r) \ {p})
    BY <1>2 DEF Calling, Key, TypeInv, TypeOK
  <2>2. /\ IsFiniteSet(Calling(r) \ {p}) /\ Cardinality(Calling(r)) \in Nat
        /\ Cardinality(Calling(r) \ {p}) = IF p \in Calling(r) THEN Cardinality(Calling(r)) - 1 ELSE Cardinality(Calling(r))
    BY CountTypes, FS_RemoveElement
  <2>3. IsFiniteSet(Calling(r)') /\ Cardinality(Calling(r)') <= Cardinality(Calling(r) \ {p})
    BY <2>1, <2>2, FS_Subset
  <2>4. Cardinality(Calling(r)') \in Nat
    BY <2>3, FS_CardinalityType
  <2>5. late[r] \in Nat
    BY CountTypes
  <2>6. CASE IsOpen(r)
    <3>1. late[r] + Cardinality(Calling(r)) <= Jobs - 1
      BY <2>6 DEF PoolInv
    <3>2. \/ late'[r] = late[r]
          \/ p \in Calling(r) /\ late'[r] = late[r] + 1
      BY <1>2, <2>6
    <3> QED
      BY <2>2, <2>3, <2>4, <2>5, <3>1, <3>2, PacksAreNaturals
  <2>7. CASE ~ IsOpen(r)
    <3>1. late'[r] = 0 /\ p \notin Calling(r)
      BY <1>2, <2>7
    <3>2. Calling(r)' \in SUBSET (inFlight \ {p})
      <4>1. Calling(r) \subseteq inFlight
        BY DEF PoolInv, Busy, Calling
      <4> QED
        BY <2>1, <4>1
    <3>3. p \in inFlight /\ IsFiniteSet(inFlight) /\ Cardinality(inFlight) <= Jobs
      BY DEF PoolInv, Busy
    <3>4. Cardinality(inFlight) \in Nat
      BY <3>3, FS_CardinalityType
    <3>5. IsFiniteSet(inFlight \ {p}) /\ Cardinality(inFlight \ {p}) = Cardinality(inFlight) - 1
      BY <3>3, FS_RemoveElement
    <3>6. Cardinality(Calling(r)') <= Cardinality(inFlight \ {p})
      BY <3>2, <3>5, FS_Subset
    <3> QED
      BY <2>4, <3>1, <3>3, <3>4, <3>5, <3>6, PacksAreNaturals
  <2> QED
    BY <2>6, <2>7
<1> QED
  BY <1>1, <1>2 DEF PoolInv

\* A step after which the circuits and the count are as before and the worker does not call.
LEMMA SilentBounded ==
    ASSUME TypeInv, PoolInv, NEW p \in Packs, NEW st, stage' = [stage EXCEPT ![p] = st],
           stage[p] \in {"lookup", "admit"}, UNCHANGED <<pool, circuit, ghosts>>,
           \A o \in Packs \ {p} : profile'[o] = profile[o],
           st # "call" \/ (~ IsOpen(Key(p)) /\ profile' = profile)
    PROVE  PoolInv'
<1>1. inFlight' = inFlight /\ late' = late /\ circuit' = circuit
  BY DEF pool, ghosts
<1>2. ASSUME NEW r \in Routes, IsOpen(r)' PROVE IsOpen(r) /\ p \notin Calling(r)'
  <2>1. IsOpen(r)
    BY <1>1, <1>2 DEF IsOpen
  <2>2. CASE st # "call"
    BY <2>1, <2>2, CountTypes DEF Calling
  <2>3. CASE ~ IsOpen(Key(p)) /\ profile' = profile
    <3>1. Key(p)' = Key(p) /\ Key(p) # r
      BY <2>1, <2>3 DEF Key
    <3> QED
      BY <2>1, <3>1 DEF Calling
  <2> QED
    BY <2>2, <2>3
<1>3. \A r \in Routes : ~ IsOpen(r)' => late'[r] = 0
  BY <1>1 DEF PoolInv, IsOpen
<1> QED
  BY <1>1, <1>2, <1>3, WorkerBounded

\* The end of an attempt leaves the profiles of the other packs alone.
LEMMA EndAttemptStage ==
    ASSUME TypeInv, NEW p \in Packs, NEW status, NEW cause, EndAttempt(p, status, cause)
    PROVE  /\ \E st : st # "call" /\ stage' = [stage EXCEPT ![p] = st]
           /\ \A o \in Packs \ {p} : profile'[o] = profile[o]
<1>1. CASE FallsBack(p, cause)
  BY <1>1, CountTypes DEF EndAttempt
<1>2. CASE ~ FallsBack(p, cause)
  BY <1>2 DEF EndAttempt
<1> QED
  BY <1>1, <1>2

LEMMA AnswerBounded == ASSUME TypeInv, PoolInv, NEW p \in Packs, Answer(p) PROVE PoolInv'
<1>1. PICK st \in {"store", "record"} : stage' = [stage EXCEPT ![p] = st]
  BY DEF Answer
<1>2. /\ stage[p] = "call" /\ inFlight' = inFlight /\ profile' = profile /\ circuit' = circuit
      /\ late' = [late EXCEPT ![Key(p)] = @ + (IF IsOpen(Key(p)) THEN 1 ELSE 0)]
  BY DEF Answer, pool
<1>3. Key(p) \in Routes
  BY KeyType DEF TypeInv
<1>4. ASSUME NEW r \in Routes
      PROVE  IF IsOpen(r)'
             THEN /\ p \notin Calling(r)'
                  /\ \/ IsOpen(r) /\ late'[r] = late[r]
                     \/ IsOpen(r) /\ p \in Calling(r) /\ late'[r] = late[r] + 1
                     \/ ~ IsOpen(r) /\ p \notin Calling(r) /\ late'[r] = 0
             ELSE late'[r] = 0
  <2>1. IsOpen(r)' = IsOpen(r)
    BY <1>2 DEF IsOpen
  <2>2. p \notin Calling(r)'
    BY <1>1, CountTypes DEF Calling
  <2>3. CASE IsOpen(r) /\ r = Key(p)
    BY <1>2, <1>3, <2>1, <2>2, <2>3, CountTypes DEF Calling
  <2>4. CASE IsOpen(r) /\ r # Key(p)
    BY <1>2, <1>3, <2>1, <2>2, <2>4, CountTypes
  <2>5. CASE ~ IsOpen(r)
    <3>1. late'[r] = late[r]
      <4>1. late \in [Routes -> Nat] /\ late[r] \in Nat
        BY CountTypes
      <4>2. CASE r = Key(p)
        BY <1>2, <2>5, <4>1, <4>2
      <4>3. CASE r # Key(p)
        BY <1>2, <4>1, <4>3
      <4> QED
        BY <4>2, <4>3
    <3> QED
      BY <2>1, <2>5, <3>1 DEF PoolInv
  <2> QED
    BY <2>3, <2>4, <2>5
<1> QED
  BY <1>1, <1>2, <1>4, WorkerBounded

LEMMA RecordBounded == ASSUME TypeInv, PoolInv, NEW p \in Packs, Record(p) PROVE PoolInv'
<1>1. PICK st : st # "call" /\ stage' = [stage EXCEPT ![p] = st]
  BY EndAttemptStage DEF Record
<1>2. \A o \in Packs \ {p} : profile'[o] = profile[o]
  BY EndAttemptStage DEF Record
<1>3. stage[p] = "record" /\ inFlight' = inFlight /\ late' = late
  BY DEF Record, pool, ghosts
<1>4. ASSUME NEW r \in Routes
      PROVE  IF IsOpen(r)'
             THEN /\ p \notin Calling(r)'
                  /\ \/ IsOpen(r) /\ late'[r] = late[r]
                     \/ IsOpen(r) /\ p \in Calling(r) /\ late'[r] = late[r] + 1
                     \/ ~ IsOpen(r) /\ p \notin Calling(r) /\ late'[r] = 0
             ELSE late'[r] = 0
  <2>1. p \notin Calling(r)' /\ p \notin Calling(r)
    BY <1>1, <1>3, CountTypes DEF Calling
  <2>2. IsOpen(r) => IsOpen(r)'
    <3>1. circuit' = [circuit EXCEPT ![Key(p)] = AfterCall(@, result[p])]
      BY DEF Record
    <3>2. circuit[r].trigger # None => AfterCall(circuit[r], result[p]) = circuit[r]
      BY DEF AfterCall
    <3> QED
      BY <3>1, <3>2, CountTypes DEF IsOpen
  <2> QED
    BY <1>3, <2>1, <2>2 DEF PoolInv
<1> QED
  BY <1>1, <1>2, <1>3, <1>4, WorkerBounded

LEMMA StoreBounded == ASSUME TypeInv, PoolInv, NEW p \in Packs, Store(p) PROVE PoolInv'
<1>1. /\ stage[p] = "store" /\ stage' = [stage EXCEPT ![p] = "record"] /\ inFlight' = inFlight
      /\ profile' = profile /\ circuit' = circuit /\ late' = late
  BY DEF Store, pool, ghosts
<1>2. \A r \in Routes : IsOpen(r)' = IsOpen(r) /\ p \notin Calling(r)'
  BY <1>1, CountTypes DEF IsOpen, Calling
<1>3. \A r \in Routes : ~ IsOpen(r) => late[r] = 0
  BY DEF PoolInv
<1> QED
  BY <1>1, <1>2, <1>3, WorkerBounded

LEMMA AskBounded ==
    ASSUME TypeInv, PoolInv, NEW p \in Packs, RejectProfile(p) \/ ReadReview(p) \/ ReadVerifications(p) \/ Admit(p)
    PROVE  PoolInv'
<1>1. stage[p] \in {"lookup", "admit"} /\ UNCHANGED <<pool, circuit, ghosts>>
  BY DEF RejectProfile, ReadReview, ReadVerifications, Admit
<1>2. CASE \E status, cause : EndAttempt(p, status, cause)
  <2>1. PICK st : st # "call" /\ stage' = [stage EXCEPT ![p] = st]
    BY <1>2, EndAttemptStage
  <2>2. \A o \in Packs \ {p} : profile'[o] = profile[o]
    BY <1>2, EndAttemptStage
  <2> QED
    BY <1>1, <2>1, <2>2, SilentBounded
<1>3. CASE stage' = [stage EXCEPT ![p] = "admit"] /\ profile' = profile
  BY <1>1, <1>3, SilentBounded
<1>4. CASE stage' = [stage EXCEPT ![p] = "call"] /\ profile' = profile /\ ~ IsOpen(Key(p))
  BY <1>1, <1>4, SilentBounded
<1> QED
  BY <1>2, <1>3, <1>4 DEF RejectProfile, ReadReview, ReadVerifications, Admit

LEMMA NextBounded == TypeInv /\ PoolInv /\ [Next]_vars => PoolInv'
<1> SUFFICES ASSUME TypeInv, PoolInv, [Next]_vars PROVE PoolInv'
  OBVIOUS
<1>1. CASE Main
  BY <1>1, CollectBounded, NextPhaseBounded DEF Main
<1>2. CASE \E p \in Packs : Worker(p)
  <2>1. PICK p \in Packs : Worker(p)
    BY <1>2
  <2> QED
    BY <2>1, AskBounded, AnswerBounded, StoreBounded, RecordBounded DEF Worker
<1>3. CASE UNCHANGED vars
  <2>1. UNCHANGED <<inFlight, stage, profile, circuit, late>>
    BY <1>3 DEF vars, pool, attempt, ghosts
  <2>2. Busy' = Busy /\ \A r \in Routes : Calling(r)' = Calling(r) /\ IsOpen(r)' = IsOpen(r)
    BY <2>1 DEF Busy, Calling, Key, IsOpen
  <2> QED
    BY <2>1, <2>2 DEF PoolInv
<1> QED
  BY <1>1, <1>2, <1>3 DEF Next, Done

\* Once a circuit is open, fewer calls end on its route than there are workers:
\* those that the other workers had in flight when it opened.
THEOREM OvershootIsBounded == Spec => []BoundedOvershoot
<1>1. TypeInv /\ PoolInv => BoundedOvershoot
  <2> SUFFICES ASSUME TypeInv, PoolInv, NEW r \in Routes PROVE late[r] <= Jobs - 1
    BY DEF BoundedOvershoot
  <2>1. late[r] \in Nat /\ Cardinality(Calling(r)) \in Nat
    BY CountTypes
  <2>2. CASE IsOpen(r)
    BY <2>1, <2>2, PacksAreNaturals DEF PoolInv
  <2>3. CASE ~ IsOpen(r)
    BY <2>1, <2>3, PacksAreNaturals DEF PoolInv
  <2> QED
    BY <2>2, <2>3
<1>2. Spec => [](TypeInv /\ PoolInv)
  BY InitTyped, NextTyped, InitBounded, NextBounded, PTL DEF Spec
<1> QED
  BY <1>1, <1>2, PTL

--------------------------------------------------------------------------------
(* Runs and verdicts of each pack.                                         *)

Run == [key : Routes, status : Failed \cup {"ok", "skipped"}]
Stages == {"waiting", "lookup", "admit", "call", "store", "record", "finished"}
Asking == {"lookup", "admit", "call", "store", "record"}

\* Packs that no worker of a review phase was given yet, and those not done with.
Unread == CASE phase = "shallow" -> queue \cup (Packs \ Shallow)
            [] phase = "deep"    -> queue
            [] OTHER             -> {}
Unfinished == CASE phase = "shallow" -> (Packs \ Shallow) \cup queue \cup inFlight
                [] phase = "deep"    -> queue \cup inFlight
                [] OTHER             -> {}

\* A pack is queued, in flight with a worker, or neither.
PlaceInv ==
    /\ queue \cap inFlight = {} /\ (inFlight = {} => queue = {})
    /\ inFlight = Busy
    /\ phase = "shallow" => inFlight \cup queue \subseteq Shallow
    /\ phase = "done" => inFlight = {}

\* Whoever has been read has a run; while a pack is read again on the escalated
\* profile, the circuit of every call it made before is open.
RunsInv ==
    /\ \A p \in Unread : runs[p] = <<>>
    /\ \A p \in Packs \ Unfinished : runs[p] # <<>>
    /\ \A p \in Packs : stage[p] = "finished" => runs[p] # <<>>
    /\ phase # "verify" =>
          \A p \in Packs : stage[p] \in Asking =>
             \A i \in DOMAIN runs[p] : runs[p][i].status = "skipped" \/ IsOpen(runs[p][i].key)
    /\ NoRepeatedCall

Unjudged(p) == \A f \in Findings : verdict[p][f] = None

Settled(p) ==
    /\ \A f \in Findings : (f \in found[p]) <=> (verdict[p][f] # None)
    /\ Last(runs[p]).status # "ok" => \A f \in found[p] \ Known[p] : verdict[p][f] = "superseded"

\* The verifier's worker has judged what was cached when it asks, and everything
\* when it has finished.
VerdictInv ==
    \A p \in Packs :
       /\ phase \in {"shallow", "deep"} => Unjudged(p)
       /\ phase = "verify" /\ (p \in queue \/ stage[p] = "lookup") => Unjudged(p)
       /\ phase = "verify" /\ stage[p] \in {"admit", "call", "store", "record"} =>
             \A f \in Findings : (f \in found[p] \cap Known[p]) <=> (verdict[p][f] # None)
       /\ phase = "verify" /\ p \notin queue /\ stage[p] \in {"waiting", "finished"} => Settled(p)
       /\ phase = "done" => Settled(p)

LEMMA LastOfAppend ==
    ASSUME NEW T, NEW s \in Seq(T), NEW e \in T
    PROVE  /\ Append(s, e) \in Seq(T) /\ Append(s, e) # <<>> /\ Last(Append(s, e)) = e
           /\ \A i \in DOMAIN Append(s, e) :
                 Append(s, e)[i] = e \/ (i \in DOMAIN s /\ Append(s, e)[i] = s[i])
<1>1. /\ Append(s, e) \in Seq(T) /\ Len(Append(s, e)) = Len(s) + 1 /\ Len(s) \in Nat
      /\ DOMAIN s = 1..Len(s) /\ DOMAIN Append(s, e) = 1..(Len(s) + 1)
      /\ \A i \in 1..Len(s) : Append(s, e)[i] = s[i]
      /\ Append(s, e)[Len(s) + 1] = e
  OBVIOUS
<1>2. Append(s, e) # <<>> /\ Last(Append(s, e)) = e
  BY <1>1 DEF Last
<1>3. \A i \in 1..(Len(s) + 1) : i = Len(s) + 1 \/ i \in 1..Len(s)
  BY <1>1
<1> QED
  BY <1>1, <1>2, <1>3, Zenon

LEMMA FirstJobsSome == ASSUME NEW ps \in SUBSET Packs, ps # {} PROVE FirstJobs(ps) # {}
<1>1. ps \subseteq Nat
  BY PacksAreNaturals
<1>2. Min(ps) \in ps /\ \A o \in ps : Min(ps) <= o
  BY <1>1, MinIsIn
<1>3. {o \in ps : o < Min(ps)} = {}
  <2>1. \A o \in ps : o \in Nat /\ Min(ps) \in Nat /\ Min(ps) <= o
    BY <1>1, <1>2
  <2>2. \A o \in ps : ~ (o < Min(ps))
    BY <2>1
  <2> QED
    BY <2>2
<1>4. Cardinality({o \in ps : o < Min(ps)}) < Jobs
  BY <1>3, FS_EmptySet, PacksAreNaturals
<1> QED
  BY <1>2, <1>4 DEF FirstJobs

LEMMA RunKeys ==
    ASSUME NEW s \in Seq(Run), NEW i \in DOMAIN s
    PROVE  s[i].key \in Routes
<1>1. s[i] \in Run
  OBVIOUS
<1> QED
  BY <1>1 DEF Run

LEMMA RunTypes ==
    ASSUME TypeInv
    PROVE  /\ runs \in [Packs -> Seq(Run)] /\ stage \in [Packs -> Stages]
           /\ profile \in [Packs -> Profiles] /\ found \in [Packs -> SUBSET Findings]
           /\ \A p \in Packs : Known[p] \subseteq Findings /\ Key(p) \in Routes
           /\ verdict \in [Packs -> [Findings -> {None, "approved", "rejected", "superseded"}]]
           /\ None \notin Failed /\ "skipped" \notin Failed
<1>1. Known \in [Packs -> SUBSET Findings] /\ None \notin Failed
  BY PoolAssumption
<1>2. "skipped" \notin Failed
  BY DEF Failed, Terminal, Retryable
<1> QED
  BY <1>1, <1>2, KeyType DEF TypeInv, TypeOK, Run, Stages

\* What the end of an attempt does.
LEMMA EndAttemptRuns ==
    ASSUME TypeInv, NEW p \in Packs, NEW status \in Failed \cup {"ok", "skipped"}, NEW cause,
           EndAttempt(p, status, cause)
    PROVE  /\ runs'[p] # <<>> /\ Last(runs'[p]) = [key |-> Key(p), status |-> status]
           /\ \A i \in DOMAIN runs'[p] :
                 \/ runs'[p][i] = [key |-> Key(p), status |-> status]
                 \/ i \in DOMAIN runs[p] /\ runs'[p][i] = runs[p][i]
           /\ \A o \in Packs \ {p} : runs'[o] = runs[o] /\ profile'[o] = profile[o] /\ (o \in fell' <=> o \in fell)
           /\ fell \subseteq fell'
           /\ \/ FallsBack(p, cause) /\ stage' = [stage EXCEPT ![p] = "lookup"]
              \/ ~ FallsBack(p, cause) /\ profile' = profile /\ stage' = [stage EXCEPT ![p] = "finished"]
<1> DEFINE run == [key |-> Key(p), status |-> status]
<1>1. run \in Run /\ runs \in [Packs -> Seq(Run)] /\ profile \in [Packs -> Profiles]
  BY RunTypes DEF Run
<1>2. runs' = [runs EXCEPT ![p] = Append(runs[p], run)]
  BY DEF EndAttempt
<1> HIDE DEF run
<1>3. runs'[p] = Append(runs[p], run) /\ runs[p] \in Seq(Run) /\ \A o \in Packs \ {p} : runs'[o] = runs[o]
  BY <1>1, <1>2
<1>4. /\ runs'[p] # <<>> /\ Last(runs'[p]) = run
      /\ \A i \in DOMAIN runs'[p] : runs'[p][i] = run \/ (i \in DOMAIN runs[p] /\ runs'[p][i] = runs[p][i])
  BY <1>1, <1>3, LastOfAppend
<1>5. CASE FallsBack(p, cause)
  <2>1. stage' = [stage EXCEPT ![p] = "lookup"] /\ profile' = [profile EXCEPT ![p] = Escalated] /\ fell' = fell \cup {p}
    BY <1>5 DEF EndAttempt
  <2>2. \A o \in Packs \ {p} : profile'[o] = profile[o] /\ (o \in fell' <=> o \in fell)
    BY <1>1, <2>1
  <2> QED
    BY <1>3, <1>4, <1>5, <2>1, <2>2 DEF run
<1>6. CASE ~ FallsBack(p, cause)
  <2>1. stage' = [stage EXCEPT ![p] = "finished"] /\ profile' = profile /\ fell' = fell
    BY <1>6 DEF EndAttempt
  <2> QED
    BY <1>3, <1>4, <1>6, <2>1 DEF run
<1> QED
  BY <1>5, <1>6

\* A circuit that is open stays as it is.
LEMMA OpenStays ==
    ASSUME TypeInv, [Next]_vars, NEW r \in Routes, IsOpen(r)
    PROVE  circuit'[r] = circuit[r]
<1>1. CASE UNCHANGED circuit
  BY <1>1
<1>2. CASE \E p \in Packs : Record(p)
  <2>1. PICK p \in Packs : Record(p)
    BY <1>2
  <2>2. circuit' = [circuit EXCEPT ![Key(p)] = AfterCall(@, result[p])]
    BY <2>1 DEF Record
  <2>3. AfterCall(circuit[r], result[p]) = circuit[r]
    BY DEF AfterCall, IsOpen
  <2>4. circuit \in [Routes -> [failures : 0..MaxFailures, trigger : Failed \cup {None}]]
    BY DEF TypeInv, TypeOK
  <2> QED
    BY <2>2, <2>3, <2>4
<1> QED
  BY <1>1, <1>2 DEF Next, Main, Done, Worker, vars, Collect, NextPhase, RejectProfile, ReadReview,
     ReadVerifications, Admit, Answer, Store

\* A worker ends its attempt, with a run whose status and cause tell of the
\* circuit of its route, or goes on asking.
AttemptEnds(p, status, cause) ==
    /\ EndAttempt(p, status, cause)
    /\ status \in Failed \cup {"ok", "skipped"}
    /\ status = "skipped" => IsOpen(Key(p)) /\ cause = circuit[Key(p)].trigger
    /\ cause = "failed_quota" => circuit'[Key(p)].trigger # None

AttemptGoesOn(p, st) ==
    /\ st \in {"admit", "call", "store", "record"}
    /\ stage' = [stage EXCEPT ![p] = st] /\ profile' = profile /\ runs' = runs /\ fell' = fell
    /\ st = "call" => ~ IsOpen(Key(p)) /\ circuit' = circuit

LEMMA WorkerFrame ==
    ASSUME TypeInv, NEW p \in Packs, Worker(p)
    PROVE  /\ UNCHANGED pool /\ stage[p] \in Asking
           /\ \/ \E status, cause : AttemptEnds(p, status, cause)
              \/ \E st : AttemptGoesOn(p, st)
<1>t. Key(p) \in Routes /\ None \notin Failed
  BY RunTypes
<1>1. CASE RejectProfile(p)
  <2>1. "failed_provider" \in Failed
    BY DEF Failed, Retryable
  <2>2. AttemptEnds(p, "failed_provider", "failed_provider")
    BY <1>1, <2>1 DEF RejectProfile, AttemptEnds
  <2> QED
    BY <1>1, <2>2 DEF RejectProfile, Asking
<1>2. CASE ReadReview(p)
  <2>1. AttemptEnds(p, "ok", "ok") \/ AttemptGoesOn(p, "admit")
    BY <1>2 DEF ReadReview, AttemptEnds, AttemptGoesOn, outcomes
  <2> QED
    BY <1>2, <2>1 DEF ReadReview, Asking
<1>3. CASE ReadVerifications(p)
  <2>1. AttemptEnds(p, "ok", "ok") \/ AttemptGoesOn(p, "admit")
    BY <1>3 DEF ReadVerifications, AttemptEnds, AttemptGoesOn
  <2> QED
    BY <1>3, <2>1 DEF ReadVerifications, Asking
<1>4. CASE Admit(p)
  <2>1. CASE IsOpen(Key(p))
    <3>1. EndAttempt(p, "skipped", SkipCause(p)) /\ circuit' = circuit
      BY <1>4, <2>1 DEF Admit
    <3>2. AttemptEnds(p, "skipped", SkipCause(p))
      BY <2>1, <3>1 DEF AttemptEnds, SkipCause, IsOpen
    <3> QED
      BY <1>4, <3>2 DEF Admit, Asking
  <2>2. CASE ~ IsOpen(Key(p))
    <3>1. AttemptGoesOn(p, "call")
      BY <1>4, <2>2 DEF Admit, AttemptGoesOn, outcomes
    <3> QED
      BY <1>4, <3>1 DEF Admit, Asking
  <2> QED
    BY <2>1, <2>2
<1>5. CASE Answer(p)
  <2>1. AttemptGoesOn(p, "store") \/ AttemptGoesOn(p, "record")
    BY <1>5 DEF Answer, AttemptGoesOn, outcomes
  <2> QED
    BY <1>5, <2>1 DEF Answer, Asking
<1>6. CASE Store(p)
  <2>1. AttemptGoesOn(p, "record")
    BY <1>6 DEF Store, AttemptGoesOn, outcomes
  <2> QED
    BY <1>6, <2>1 DEF Store, Asking
<1>7. CASE Record(p)
  <2>1. result[p] \in Failed \cup {"ok"} /\ stage[p] = "record" /\ UNCHANGED pool
    BY <1>7 DEF Record, TypeInv
  <2>2. result[p] = "failed_quota" => circuit'[Key(p)].trigger # None
    <3>1. circuit \in [Routes -> [failures : 0..MaxFailures, trigger : Failed \cup {None}]]
      BY DEF TypeInv, TypeOK
    <3>2. circuit'[Key(p)] = AfterCall(circuit[Key(p)], result[p])
      BY <1>7, <1>t, <3>1 DEF Record
    <3>3. circuit[Key(p)] \in [failures : 0..MaxFailures, trigger : Failed \cup {None}]
      BY <1>t, <3>1
    <3>4. "failed_quota" \in Terminal /\ "failed_quota" \in Failed
      BY DEF Terminal, Failed
    <3> QED
      BY <1>t, <3>2, <3>3, <3>4 DEF AfterCall
  <2>3. AttemptEnds(p, result[p], result[p])
    BY <1>7, <2>1, <2>2, RunTypes DEF Record, AttemptEnds
  <2> QED
    BY <2>1, <2>3 DEF Asking
<1> QED
  BY <1>1, <1>2, <1>3, <1>4, <1>5, <1>6, <1>7 DEF Worker

\* What a step of the worker of p leaves alone, and where it leaves p.
LEMMA WorkerStage ==
    ASSUME TypeInv, NEW p \in Packs, Worker(p)
    PROVE  /\ stage[p] \in Asking /\ stage'[p] \in Asking \cup {"finished"}
           /\ stage'[p] = "lookup" => phase # "verify"
           /\ stage'[p] = "finished" => runs'[p] # <<>>
           /\ runs[p] # <<>> => runs'[p] # <<>>
           /\ \A o \in Packs \ {p} : stage'[o] = stage[o] /\ runs'[o] = runs[o] /\ profile'[o] = profile[o]
                                     /\ (o \in fell' <=> o \in fell)
           /\ UNCHANGED pool
<1>1. UNCHANGED pool /\ stage[p] \in Asking /\ stage \in [Packs -> Stages]
  BY WorkerFrame, RunTypes
<1>2. CASE \E status, cause : AttemptEnds(p, status, cause)
  <2>1. PICK status, cause : AttemptEnds(p, status, cause)
    BY <1>2
  <2>2. /\ runs'[p] # <<>>
        /\ \A o \in Packs \ {p} : runs'[o] = runs[o] /\ profile'[o] = profile[o] /\ (o \in fell' <=> o \in fell)
        /\ \/ FallsBack(p, cause) /\ stage' = [stage EXCEPT ![p] = "lookup"]
           \/ stage' = [stage EXCEPT ![p] = "finished"]
    BY <2>1, EndAttemptRuns DEF AttemptEnds
  <2> QED
    BY <1>1, <2>2 DEF FallsBack, Asking
<1>3. CASE \E st : AttemptGoesOn(p, st)
  <2>1. PICK st : AttemptGoesOn(p, st)
    BY <1>3
  <2> QED
    BY <1>1, <2>1 DEF AttemptGoesOn, Asking
<1> QED
  BY <1>2, <1>3, WorkerFrame

--------------------------------------------------------------------------------
(* Places.                                                                 *)

LEMMA InitPlaced == Init => PlaceInv
<1> SUFFICES ASSUME Init PROVE PlaceInv
  OBVIOUS
<1>1. Shallow \in SUBSET Packs /\ FirstJobs(Shallow) \subseteq Shallow
  BY PoolAssumption, FirstJobsBounded
<1>2. FirstJobs(Shallow) = {} => Shallow = {}
  BY <1>1, FirstJobsSome
<1>3. Busy = inFlight
  BY <1>1 DEF Init, Busy, Submitted
<1> QED
  BY <1>1, <1>2, <1>3 DEF Init, PlaceInv

LEMMA CollectPlaced == ASSUME TypeInv, PlaceInv, NEW p \in Packs, Collect(p) PROVE PlaceInv'
<1> DEFINE next == IF queue = {} THEN {} ELSE {Min(queue)}
<1>1. queue \subseteq Packs /\ queue \subseteq Nat /\ stage \in [Packs -> Stages]
  BY PacksAreNaturals, RunTypes DEF TypeInv, TypeOK
<1>2. next \subseteq queue /\ (queue # {} => next # {})
  BY <1>1, MinIsIn
<1>3. /\ inFlight' = (inFlight \ {p}) \cup next /\ queue' = queue \ next
      /\ stage' = [o \in Packs |-> IF o \in next THEN "lookup" ELSE IF o = p THEN "waiting" ELSE stage[o]]
      /\ phase' = phase /\ p \in Busy
  BY DEF Collect, Busy
<1> HIDE DEF next
<1>4. Busy' = inFlight'
  BY <1>1, <1>2, <1>3 DEF Busy, PlaceInv
<1> QED
  BY <1>2, <1>3, <1>4 DEF PlaceInv

LEMMA NextPhasePlaced == ASSUME TypeInv, NextPhase PROVE PlaceInv'
<1> DEFINE work == Work(phase')
<1>1. work \in SUBSET Packs /\ FirstJobs(work) \subseteq work
  BY WorkType, FirstJobsBounded DEF TypeInv
<1>2. FirstJobs(work) = {} => work = {}
  BY <1>1, FirstJobsSome
<1>3. /\ inFlight' = FirstJobs(work) /\ queue' = work \ FirstJobs(work)
      /\ stage' = Submitted(FirstJobs(work)) /\ phase' \in {"deep", "verify", "done"}
  BY DEF NextPhase
<1>4. phase' = "done" => work = {}
  BY DEF Work
<1> HIDE DEF work
<1>5. Busy' = inFlight'
  BY <1>1, <1>3 DEF Busy, Submitted
<1> QED
  BY <1>1, <1>2, <1>3, <1>4, <1>5 DEF PlaceInv

LEMMA NextPlaced == TypeInv /\ PlaceInv /\ [Next]_vars => PlaceInv'
<1> SUFFICES ASSUME TypeInv, PlaceInv, [Next]_vars PROVE PlaceInv'
  OBVIOUS
<1>1. CASE Main
  BY <1>1, CollectPlaced, NextPhasePlaced DEF Main
<1>2. CASE \E p \in Packs : Worker(p)
  <2>1. PICK p \in Packs : Worker(p)
    BY <1>2
  <2>2. Busy' = Busy
    BY <2>1, WorkerStage DEF Busy, Asking
  <2> QED
    BY <2>1, <2>2, WorkerStage DEF PlaceInv, pool
<1>3. CASE UNCHANGED vars
  BY <1>3 DEF vars, pool, PlaceInv, Busy
<1> QED
  BY <1>1, <1>2, <1>3 DEF Next, Done

--------------------------------------------------------------------------------
(* Runs.                                                                   *)

LEMMA InitRuns == Init => RunsInv
<1> SUFFICES ASSUME Init PROVE RunsInv
  OBVIOUS
<1>1. \A p \in Packs : runs[p] = <<>> /\ DOMAIN runs[p] = {} /\ stage[p] # "finished" /\ stage[p] # "call"
  <2>1. stage \in [Packs -> {"waiting", "lookup"}]
    BY PoolAssumption, FirstJobsBounded, StagesType DEF Init
  <2> QED
    BY <2>1 DEF Init
<1>2. Packs \ Unfinished = {} /\ Unread \subseteq Packs
  BY PoolAssumption DEF Init, Unfinished, Unread
<1> QED
  BY <1>1, <1>2 DEF RunsInv, NoRepeatedCall

LEMMA CollectRuns == ASSUME TypeInv, PlaceInv, RunsInv, NEW p \in Packs, Collect(p) PROVE RunsInv'
<1> DEFINE next == IF queue = {} THEN {} ELSE {Min(queue)}
<1>1. queue \subseteq Packs /\ queue \subseteq Nat /\ stage \in [Packs -> Stages]
  BY PacksAreNaturals, RunTypes DEF TypeInv, TypeOK
<1>2. next \subseteq queue
  BY <1>1, MinIsIn
<1>3. /\ inFlight' = (inFlight \ {p}) \cup next /\ queue' = queue \ next
      /\ stage' = [o \in Packs |-> IF o \in next THEN "lookup" ELSE IF o = p THEN "waiting" ELSE stage[o]]
      /\ phase' = phase /\ stage[p] = "finished" /\ runs' = runs /\ profile' = profile /\ circuit' = circuit
  BY DEF Collect, outcomes, attempt
<1> HIDE DEF next
<1>4. \A o \in Unread' : runs'[o] = <<>>
  <2>1. Unread' \subseteq Unread
    BY <1>3 DEF Unread
  <2> QED
    BY <1>3, <2>1 DEF RunsInv
<1>5. \A o \in Packs \ Unfinished' : runs'[o] # <<>>
  <2>1. Unfinished \subseteq Unfinished' \cup {p}
    BY <1>2, <1>3 DEF Unfinished
  <2>2. runs[p] # <<>>
    BY <1>3 DEF RunsInv
  <2> QED
    BY <1>3, <2>1, <2>2 DEF RunsInv
<1>6. ASSUME NEW o \in Packs, o \in next, phase # "verify" PROVE runs'[o] = <<>> /\ DOMAIN runs'[o] = {}
  <2>1. phase # "done"
    BY <1>2, <1>3, <1>6 DEF PlaceInv, Busy
  <2>2. o \in Unread
    BY <1>2, <1>6, <2>1 DEF Unread, TypeInv, TypeOK
  <2>3. runs'[o] = <<>>
    BY <1>3, <2>2 DEF RunsInv
  <2> QED
    BY <2>3
<1>7. \A o \in Packs \ next : stage'[o] = stage[o] \/ stage'[o] = "waiting"
  BY <1>3
<1>8. \A o \in next : stage'[o] = "lookup"
  BY <1>1, <1>2, <1>3
<1>9. \A o \in Packs : stage'[o] = "finished" => runs'[o] # <<>>
  BY <1>3, <1>7, <1>8 DEF RunsInv
<1>10. phase' # "verify" =>
          \A o \in Packs : stage'[o] \in Asking =>
             \A i \in DOMAIN runs'[o] : runs'[o][i].status = "skipped" \/ IsOpen(runs[o][i].key)'
  <2> SUFFICES ASSUME phase' # "verify", NEW o \in Packs, stage'[o] \in Asking, NEW i \in DOMAIN runs'[o]
               PROVE  runs'[o][i].status = "skipped" \/ IsOpen(runs[o][i].key)'
    OBVIOUS
  <2>1. CASE o \in next
    BY <1>3, <1>6, <2>1
  <2>2. CASE o \notin next
    <3>1. stage[o] \in Asking
      BY <1>7, <2>2 DEF Asking
    <3> QED
      BY <1>3, <3>1 DEF RunsInv, IsOpen
  <2> QED
    BY <2>1, <2>2
<1>11. NoRepeatedCall'
  BY <1>3, <1>7, <1>8 DEF RunsInv, NoRepeatedCall, Key
<1> QED
  BY <1>4, <1>5, <1>9, <1>10, <1>11 DEF RunsInv

LEMMA NextPhaseRuns == ASSUME TypeInv, PlaceInv, RunsInv, NextPhase PROVE RunsInv'
<1> DEFINE work == Work(phase')
<1>1. work \in SUBSET Packs /\ FirstJobs(work) \subseteq work
  BY WorkType, FirstJobsBounded DEF TypeInv
<1>2. /\ inFlight' = FirstJobs(work) /\ queue' = work \ FirstJobs(work)
      /\ stage' = Submitted(FirstJobs(work)) /\ inFlight = {} /\ queue = {}
      /\ runs' = runs
      /\ \/ phase = "shallow" /\ phase' = "deep"
         \/ phase = "deep" /\ phase' = "verify"
         \/ phase = "verify" /\ phase' = "done"
  BY DEF NextPhase, outcomes, PlaceInv, TypeInv, TypeOK
<1>3. phase' = "deep" => work = Packs \ Shallow
  BY DEF Work
<1> HIDE DEF work
<1>4. stage' \in [Packs -> {"waiting", "lookup"}]
  BY <1>1, <1>2, StagesType
<1>5. \A o \in Unread' : runs'[o] = <<>>
  BY <1>2, <1>3 DEF RunsInv, Unread
<1>6. \A o \in Packs \ Unfinished' : runs'[o] # <<>>
  <2>1. Unfinished \subseteq Unfinished'
    BY <1>1, <1>2, <1>3 DEF Unfinished
  <2> QED
    BY <1>2, <2>1 DEF RunsInv
<1>7. \A o \in Packs : stage'[o] # "finished" /\ stage'[o] # "call"
  BY <1>4
<1>8. ASSUME phase' # "verify", NEW o \in Packs, stage'[o] \in Asking PROVE DOMAIN runs'[o] = {}
  <2>1. o \in FirstJobs(work)
    BY <1>1, <1>2, <1>8 DEF Submitted, Asking
  <2>2. phase' = "deep"
    <3>1. phase' = "done" => work = {}
      BY DEF work, Work
    <3> QED
      BY <1>1, <1>2, <1>8, <2>1, <3>1
  <2>3. o \in Unread
    BY <1>1, <1>2, <1>3, <2>1, <2>2 DEF Unread
  <2> QED
    BY <1>2, <2>3 DEF RunsInv
<1> QED
  BY <1>5, <1>6, <1>7, <1>8 DEF RunsInv, NoRepeatedCall

LEMMA WorkerRuns == ASSUME TypeInv, PlaceInv, RunsInv, NEW p \in Packs, Worker(p) PROVE RunsInv'
<1>1. /\ stage[p] \in Asking /\ stage'[p] \in Asking \cup {"finished"}
      /\ stage'[p] = "finished" => runs'[p] # <<>>
      /\ runs[p] # <<>> => runs'[p] # <<>>
      /\ \A o \in Packs \ {p} : stage'[o] = stage[o] /\ runs'[o] = runs[o] /\ profile'[o] = profile[o]
      /\ phase' = phase /\ queue' = queue /\ inFlight' = inFlight
  BY WorkerStage DEF pool
<1>2. p \in inFlight /\ p \notin Unread
  <2>1. p \in inFlight /\ p \notin queue
    BY <1>1 DEF PlaceInv, Busy, Asking
  <2> QED
    BY <2>1 DEF PlaceInv, Unread
<1>3. \A o \in Unread' : runs'[o] = <<>>
  <2>1. Unread' = Unread /\ Unread \subseteq Packs
    BY <1>1, PoolAssumption DEF Unread, TypeInv, TypeOK
  <2> QED
    BY <1>1, <1>2, <2>1 DEF RunsInv
<1>4. \A o \in Packs \ Unfinished' : runs'[o] # <<>>
  <2>1. Unfinished' = Unfinished
    BY <1>1 DEF Unfinished
  <2> QED
    BY <1>1, <2>1 DEF RunsInv
<1>5. \A o \in Packs : stage'[o] = "finished" => runs'[o] # <<>>
  BY <1>1 DEF RunsInv
<1>6. \A r \in Routes : IsOpen(r) => IsOpen(r)'
  <2>1. [Next]_vars
    BY DEF Next
  <2> QED
    BY <2>1, OpenStays DEF IsOpen
<1>k. \A o \in Packs : \A i \in DOMAIN runs[o] : runs[o][i].key \in Routes
  BY RunTypes, RunKeys
<1>7. ASSUME phase # "verify", NEW o \in Packs, stage'[o] \in Asking, NEW i \in DOMAIN runs'[o]
      PROVE  runs'[o][i].status = "skipped" \/ IsOpen(runs[o][i].key)'
  <2>1. CASE o # p \/ runs' = runs
    <3>1. i \in DOMAIN runs[o] /\ runs'[o] = runs[o] /\ stage[o] \in Asking
      BY <1>1, <1>7, <2>1
    <3> QED
      BY <1>6, <1>7, <1>k, <3>1 DEF RunsInv
  <2>2. CASE o = p /\ \E status, cause : AttemptEnds(p, status, cause)
    <3>1. PICK status, cause : AttemptEnds(p, status, cause)
      BY <2>2
    <3> DEFINE run == [key |-> Key(p), status |-> status]
    <3>2. /\ runs'[p][i] = run \/ (i \in DOMAIN runs[p] /\ runs'[p][i] = runs[p][i])
          /\ \/ FallsBack(p, cause)
             \/ stage' = [stage EXCEPT ![p] = "finished"]
      BY <1>7, <2>2, <3>1, EndAttemptRuns DEF AttemptEnds
    <3>3. FallsBack(p, cause)
      BY <1>7, <2>2, <3>2, RunTypes DEF Asking
    <3>4. circuit'[Key(p)].trigger # None
      BY <3>1, <3>3 DEF FallsBack, AttemptEnds
    <3>5. CASE runs'[p][i] = run
      BY <2>2, <3>4, <3>5 DEF IsOpen
    <3>6. CASE i \in DOMAIN runs[p] /\ runs'[p][i] = runs[p][i]
      BY <1>1, <1>6, <1>7, <1>k, <2>2, <3>6 DEF RunsInv
    <3> QED
      BY <3>2, <3>5, <3>6
  <2> QED
    BY <2>1, <2>2, WorkerFrame DEF AttemptGoesOn
<1>8. ASSUME NEW o \in Packs, stage'[o] = "call", phase' # "verify",
             NEW i \in DOMAIN runs'[o], runs'[o][i].key = Key(o)'
      PROVE  runs'[o][i].status = "skipped"
  <2>1. CASE o # p
    <3>1. runs'[o] = runs[o] /\ stage[o] = "call" /\ Key(o)' = Key(o) /\ phase # "verify"
      BY <1>1, <1>8, <2>1 DEF Key
    <3> QED
      BY <1>8, <3>1 DEF RunsInv, NoRepeatedCall
  <2>2. CASE o = p /\ \E status, cause : AttemptEnds(p, status, cause)
    <3>1. PICK status, cause : AttemptEnds(p, status, cause)
      BY <2>2
    <3>2. stage' = [stage EXCEPT ![p] = "lookup"] \/ stage' = [stage EXCEPT ![p] = "finished"]
      BY <3>1, EndAttemptRuns DEF AttemptEnds
    <3> QED
      BY <1>8, <2>2, <3>2, RunTypes
  <2>3. CASE o = p /\ \E st : AttemptGoesOn(p, st)
    <3>1. PICK st : AttemptGoesOn(p, st)
      BY <2>3
    <3>2. st = "call"
      BY <1>8, <2>3, <3>1, RunTypes DEF AttemptGoesOn
    <3>3. ~ IsOpen(Key(p)) /\ runs'[o] = runs[o] /\ Key(o)' = Key(p)
      BY <2>3, <3>1, <3>2 DEF AttemptGoesOn, Key
    <3>4. runs[o][i].status = "skipped" \/ IsOpen(runs[o][i].key)
      BY <1>1, <1>8, <2>3, <3>3 DEF RunsInv
    <3> QED
      BY <1>8, <3>3, <3>4
  <2> QED
    BY <2>1, <2>2, <2>3, WorkerFrame
<1>9. NoRepeatedCall'
  BY <1>8 DEF NoRepeatedCall
<1> QED
  BY <1>1, <1>3, <1>4, <1>5, <1>7, <1>9 DEF RunsInv

LEMMA NextRuns == TypeInv /\ PlaceInv /\ RunsInv /\ [Next]_vars => RunsInv'
<1> SUFFICES ASSUME TypeInv, PlaceInv, RunsInv, [Next]_vars PROVE RunsInv'
  OBVIOUS
<1>1. CASE Main
  BY <1>1, CollectRuns, NextPhaseRuns DEF Main
<1>2. CASE \E p \in Packs : Worker(p)
  BY <1>2, WorkerRuns
<1>3. CASE UNCHANGED vars
  BY <1>3 DEF vars, pool, attempt, outcomes, RunsInv, Unread, Unfinished, IsOpen, NoRepeatedCall, Key
<1> QED
  BY <1>1, <1>2, <1>3 DEF Next, Done

\* No pack pays twice for one route: whatever made it fall back has opened the
\* circuit of the route that it called before.
THEOREM NoCallIsRepeated == Spec => []NoRepeatedCall
<1>1. Spec => [](TypeInv /\ PlaceInv /\ RunsInv)
  BY InitTyped, NextTyped, InitPlaced, NextPlaced, InitRuns, NextRuns, PTL DEF Spec
<1>2. RunsInv => NoRepeatedCall
  BY DEF RunsInv
<1> QED
  BY <1>1, <1>2, PTL

--------------------------------------------------------------------------------
(* Packs that are left out.                                                *)

LEMMA WorkerExhausted ==
    ASSUME TypeInv, SkippedOnlyWhenExhausted, NEW p \in Packs, Worker(p)
    PROVE  SkippedOnlyWhenExhausted'
<1>1. /\ stage[p] \in Asking
      /\ \A o \in Packs \ {p} : stage'[o] = stage[o] /\ runs'[o] = runs[o] /\ profile'[o] = profile[o]
                                /\ (o \in fell' <=> o \in fell)
      /\ phase' = phase
  BY WorkerStage DEF pool
<1>2. \A r \in Routes : IsOpen(r) => circuit'[r] = circuit[r] /\ IsOpen(r)'
  <2>1. [Next]_vars
    BY DEF Next
  <2> QED
    BY <2>1, OpenStays DEF IsOpen
<1>l. \A o \in Packs : stage[o] = "finished" /\ Last(runs[o]).status = "skipped" => IsOpen(Last(runs[o]).key)
  BY DEF SkippedOnlyWhenExhausted
<1> DEFINE Exhausted(o) ==
             /\ IsOpen(Last(runs[o]).key)
             /\ phase # "verify" /\ circuit[Last(runs[o]).key].trigger = "failed_quota" =>
                   o \in fell \/ Escalated \in {None, profile[o]}
<1>3. ASSUME NEW o \in Packs, stage'[o] = "finished", Last(runs'[o]).status = "skipped"
      PROVE  Exhausted(o)'
  <2>1. CASE o # p
    <3>1. stage[o] = "finished" /\ runs'[o] = runs[o] /\ profile'[o] = profile[o] /\ (o \in fell' <=> o \in fell)
      BY <1>1, <1>3, <2>1
    <3>2. Exhausted(o)
      BY <1>3, <3>1 DEF SkippedOnlyWhenExhausted
    <3>3. circuit'[Last(runs[o]).key] = circuit[Last(runs[o]).key]
      <4>1. CASE \E q \in Packs : Record(q)
        <5>1. PICK q \in Packs : Record(q)
          BY <4>1
        <5>2. circuit' = [circuit EXCEPT ![Key(q)] = AfterCall(@, result[q])] /\ Key(q) \in Routes
          BY <5>1, RunTypes DEF Record
        <5>3. circuit[Last(runs[o]).key].trigger # None
          BY <3>2 DEF IsOpen
        <5>4. AfterCall(circuit[Last(runs[o]).key], result[q]) = circuit[Last(runs[o]).key]
          BY <5>3 DEF AfterCall
        <5>5. circuit \in [Routes -> [failures : 0..MaxFailures, trigger : Failed \cup {None}]]
          BY DEF TypeInv, TypeOK
        <5> QED
          BY <5>2, <5>4, <5>5
      <4>2. CASE circuit' = circuit
        BY <4>2
      <4> QED
        BY <4>1, <4>2 DEF Worker, RejectProfile, ReadReview, ReadVerifications, Admit, Answer, Store
    <3> QED
      BY <1>1, <3>1, <3>2, <3>3 DEF IsOpen
  <2>2. CASE o = p
    <3>1. PICK status, cause : AttemptEnds(p, status, cause)
      <4>1. ASSUME NEW st, AttemptGoesOn(p, st) PROVE stage'[p] # "finished"
        BY <4>1, RunTypes DEF AttemptGoesOn
      <4> QED
        BY <1>3, <2>2, <4>1, WorkerFrame
    <3>2. Last(runs'[p]) = [key |-> Key(p), status |-> status]
      BY <3>1, EndAttemptRuns DEF AttemptEnds
    <3>3. status = "skipped"
      BY <1>3, <2>2, <3>2
    <3>4. Last(runs'[p]).key = Key(p) /\ IsOpen(Key(p)) /\ cause = circuit[Key(p)].trigger
      BY <3>1, <3>2, <3>3 DEF AttemptEnds
    <3>5. circuit'[Key(p)] = circuit[Key(p)] /\ IsOpen(Key(p))
      BY <1>2, <3>4, RunTypes
    <3>6. ~ FallsBack(p, cause) /\ profile' = profile
      BY <1>3, <2>2, <3>1, EndAttemptRuns, RunTypes DEF AttemptEnds
    <3>7. p \in fell => p \in fell'
      BY <3>1, EndAttemptRuns DEF AttemptEnds
    <3> QED
      BY <1>1, <2>2, <3>4, <3>5, <3>6, <3>7 DEF FallsBack, IsOpen
  <2> QED
    BY <2>1, <2>2
<1> QED
  BY <1>3 DEF SkippedOnlyWhenExhausted

\* A pack is left out only when the circuit of the route it came to is open, and
\* after a spent quota only when the fallback was of no use either.
THEOREM SkippedWhenExhausted == Spec => []SkippedOnlyWhenExhausted
<1>1. Init => SkippedOnlyWhenExhausted
  <2> SUFFICES ASSUME Init PROVE \A p \in Packs : stage[p] # "finished"
    BY DEF SkippedOnlyWhenExhausted
  <2>1. stage \in [Packs -> {"waiting", "lookup"}]
    BY PoolAssumption, FirstJobsBounded, StagesType DEF Init
  <2> QED
    BY <2>1
<1>2. ASSUME TypeInv, SkippedOnlyWhenExhausted, [Next]_vars PROVE SkippedOnlyWhenExhausted'
  <2>1. ASSUME NEW p \in Packs, Collect(p) PROVE SkippedOnlyWhenExhausted'
    <3>1. /\ \A o \in Packs : stage'[o] = "finished" => stage[o] = "finished"
          /\ UNCHANGED <<phase, attempt, outcomes, circuit>>
      BY <2>1 DEF Collect
    <3> QED
      BY <1>2, <3>1 DEF SkippedOnlyWhenExhausted, attempt, outcomes, IsOpen
  <2>2. ASSUME NextPhase PROVE SkippedOnlyWhenExhausted'
    <3>1. \A o \in Packs : stage'[o] # "finished"
      BY <2>2 DEF NextPhase, Submitted
    <3> QED
      BY <3>1 DEF SkippedOnlyWhenExhausted
  <2>3. CASE UNCHANGED vars
    BY <1>2, <2>3 DEF vars, pool, attempt, outcomes, SkippedOnlyWhenExhausted, IsOpen
  <2> QED
    BY <1>2, <2>1, <2>2, <2>3, WorkerExhausted DEF Next, Main, Done
<1> QED
  BY <1>1, <1>2, InitTyped, NextTyped, PTL DEF Spec

--------------------------------------------------------------------------------
(* Verdicts.                                                               *)

\* The row of verdicts that a step of the verifier leaves for p.
LEMMA KeepVerdict ==
    ASSUME TypeInv, NEW p \in Packs, NEW status, NEW reported, Keep(p, status, reported)
    PROVE  /\ \A o \in Packs \ {p} : verdict'[o] = verdict[o] /\ found'[o] = found[o]
           /\ phase # "verify" => verdict' = verdict
           /\ phase = "verify" =>
                 /\ found' = found
                 /\ \A f \in Findings :
                       verdict'[p][f] = IF f \in Misses(p) THEN Judged(status, f \in reported) ELSE verdict[p][f]
<1>1. verdict \in [Packs -> [Findings -> {None, "approved", "rejected", "superseded"}]]
      /\ found \in [Packs -> SUBSET Findings]
  BY RunTypes
<1>2. CASE phase = "verify"
  BY <1>1, <1>2 DEF Keep
<1>3. CASE phase # "verify"
  BY <1>1, <1>3 DEF Keep
<1> QED
  BY <1>2, <1>3

\* Keep settles a pack whose cached verdicts were read.
LEMMA KeepSettles ==
    ASSUME TypeInv, NEW p \in Packs, NEW status, NEW reported, Keep(p, status, reported), phase = "verify",
           \A f \in Findings : (f \in found[p] \cap Known[p]) <=> (verdict[p][f] # None),
           Last(runs'[p]).status = status
    PROVE  Settled(p)'
<1>1. /\ found' = found /\ found[p] \subseteq Findings
      /\ \A f \in Findings :
            verdict'[p][f] = IF f \in found[p] \ Known[p] THEN Judged(status, f \in reported) ELSE verdict[p][f]
  BY KeepVerdict, RunTypes DEF Misses
<1>2. \A f : Judged(status, f \in reported) # None
  BY PoolAssumption DEF Judged
<1>3. \A f \in Findings : (f \in found'[p]) <=> (verdict'[p][f] # None)
  BY <1>1, <1>2
<1>4. Last(runs'[p]).status # "ok" => \A f \in found'[p] \ Known[p] : verdict'[p][f] = "superseded"
  BY <1>1 DEF Judged
<1> QED
  BY <1>3, <1>4 DEF Settled

LEMMA InitVerdicts == Init => VerdictInv
<1> SUFFICES ASSUME Init PROVE VerdictInv
  OBVIOUS
<1>1. \A p \in Packs : Unjudged(p) /\ phase = "shallow"
  BY DEF Init, Unjudged
<1> QED
  BY <1>1 DEF VerdictInv

LEMMA CollectVerdicts == ASSUME TypeInv, PlaceInv, VerdictInv, NEW p \in Packs, Collect(p) PROVE VerdictInv'
<1> DEFINE next == IF queue = {} THEN {} ELSE {Min(queue)}
<1>1. queue \subseteq Packs /\ queue \subseteq Nat /\ stage \in [Packs -> Stages]
  BY PacksAreNaturals, RunTypes DEF TypeInv, TypeOK
<1>2. next \subseteq queue
  BY <1>1, MinIsIn
<1>3. /\ queue' = queue \ next
      /\ stage' = [o \in Packs |-> IF o \in next THEN "lookup" ELSE IF o = p THEN "waiting" ELSE stage[o]]
      /\ phase' = phase /\ stage[p] = "finished" /\ runs' = runs /\ verdict' = verdict /\ found' = found
  BY DEF Collect, outcomes
<1> HIDE DEF next
<1>4. p \notin queue
  BY <1>3 DEF PlaceInv, Busy
<1>5. ASSUME NEW o \in Packs
      PROVE  /\ stage'[o] = IF o \in next THEN "lookup" ELSE IF o = p THEN "waiting" ELSE stage[o]
             /\ Unjudged(o)' = Unjudged(o) /\ Settled(o)' = Settled(o)
  BY <1>3 DEF Unjudged, Settled
<1>6. ASSUME NEW o \in Packs
      PROVE  /\ phase' \in {"shallow", "deep"} => Unjudged(o)'
             /\ phase' = "verify" /\ (o \in queue' \/ stage'[o] = "lookup") => Unjudged(o)'
             /\ phase' = "verify" /\ o \notin queue' /\ stage'[o] \in {"waiting", "finished"} => Settled(o)'
             /\ phase' = "done" => Settled(o)'
  BY <1>2, <1>3, <1>4, <1>5 DEF VerdictInv
<1>7. ASSUME NEW o \in Packs, phase' = "verify", stage'[o] \in {"admit", "call", "store", "record"}
      PROVE  \A f \in Findings : (f \in found'[o] \cap Known[o]) <=> (verdict'[o][f] # None)
  BY <1>3, <1>5, <1>7 DEF VerdictInv
<1> QED
  BY <1>6, <1>7 DEF VerdictInv

LEMMA NextPhaseVerdicts == ASSUME TypeInv, PlaceInv, VerdictInv, NextPhase PROVE VerdictInv'
<1> DEFINE work == Work(phase')
<1>1. work \in SUBSET Packs /\ FirstJobs(work) \subseteq work
  BY WorkType, FirstJobsBounded DEF TypeInv
<1>2. /\ queue' = work \ FirstJobs(work) /\ stage' = Submitted(FirstJobs(work)) /\ inFlight = {} /\ queue = {}
      /\ runs' = runs /\ verdict' = verdict /\ found' = found
      /\ \/ phase = "shallow" /\ phase' = "deep"
         \/ phase = "deep" /\ phase' = "verify"
         \/ phase = "verify" /\ phase' = "done"
  BY DEF NextPhase, outcomes, PlaceInv, TypeInv, TypeOK
<1>3. phase' = "verify" => work = {p \in Packs : found[p] # {}}
  BY DEF Work
<1> HIDE DEF work
<1>4. ASSUME NEW o \in Packs
      PROVE  /\ stage'[o] = IF o \in FirstJobs(work) THEN "lookup" ELSE "waiting"
             /\ Unjudged(o)' = Unjudged(o) /\ Settled(o)' = Settled(o)
             /\ stage[o] = "waiting"
  BY <1>2, RunTypes DEF Unjudged, Settled, Submitted, PlaceInv, Busy
<1>5. ASSUME NEW o \in Packs, phase' = "verify", o \notin queue', stage'[o] = "waiting" PROVE Settled(o)
  <2>1. found[o] = {} /\ Unjudged(o)
    BY <1>2, <1>3, <1>4, <1>5 DEF VerdictInv
  <2> QED
    BY <2>1 DEF Settled, Unjudged
<1>6. \A o \in Packs : phase' = "verify" => Unjudged(o)
  BY <1>2 DEF VerdictInv
<1>7. \A o \in Packs : phase' = "done" => Settled(o)
  BY <1>2, <1>4 DEF VerdictInv
<1>8. \A o \in Packs : phase' \in {"shallow", "deep"} => Unjudged(o)
  BY <1>2 DEF VerdictInv
<1> QED
  BY <1>4, <1>5, <1>6, <1>7, <1>8 DEF VerdictInv

\* In a review phase no verdict changes.
LEMMA ReviewerVerdicts == ASSUME TypeInv, NEW p \in Packs, Worker(p), phase # "verify" PROVE verdict' = verdict
  BY KeepVerdict DEF Worker, RejectProfile, ReadReview, ReadVerifications, Admit, Answer, Store, Record, outcomes

\* A step of the verifier of p brings its verdicts to the point where its stage says.
LEMMA VerifierVerdicts ==
    ASSUME TypeInv, VerdictInv, NEW p \in Packs, Worker(p), phase = "verify"
    PROVE  /\ found' = found /\ \A o \in Packs \ {p} : verdict'[o] = verdict[o]
           /\ stage'[p] = "finished" => Settled(p)'
           /\ stage'[p] \in {"admit", "call", "store", "record"} =>
                 \A f \in Findings : (f \in found[p] \cap Known[p]) <=> (verdict'[p][f] # None)
<1>1. /\ verdict \in [Packs -> [Findings -> {None, "approved", "rejected", "superseded"}]]
      /\ stage \in [Packs -> Stages] /\ found[p] \subseteq Findings
  BY RunTypes
<1>2. CASE RejectProfile(p)
  <2>1. /\ verdict' = [verdict EXCEPT ![p] = [f \in Findings |->
                           IF f \in found[p] THEN Judged("failed_provider", FALSE) ELSE @[f]]]
        /\ found' = found /\ Unjudged(p) /\ EndAttempt(p, "failed_provider", "failed_provider")
    BY <1>2 DEF RejectProfile, VerdictInv
  <2>2. stage' = [stage EXCEPT ![p] = "finished"]
    BY <2>1 DEF EndAttempt, FallsBack
  <2>3. \A f \in Findings : verdict'[p][f] = IF f \in found[p] THEN "superseded" ELSE None
    BY <1>1, <2>1 DEF Judged, Unjudged
  <2>4. Settled(p)'
    BY <1>1, <2>1, <2>3, PoolAssumption DEF Settled
  <2> QED
    BY <1>1, <2>1, <2>2, <2>4
<1>3. CASE ReadVerifications(p)
  <2>1. PICK approved \in SUBSET (found[p] \cap Known[p]) :
           verdict' = [verdict EXCEPT ![p] = [f \in Findings |->
                         IF f \in found[p] \cap Known[p] THEN Judged("ok", f \in approved) ELSE @[f]]]
    BY <1>3 DEF ReadVerifications
  <2>2. found' = found /\ Unjudged(p)
    BY <1>3 DEF ReadVerifications, VerdictInv
  <2>3. \A f \in Findings :
          verdict'[p][f] = IF f \in found[p] \cap Known[p] THEN Judged("ok", f \in approved) ELSE None
    BY <1>1, <2>1, <2>2 DEF Unjudged
  <2>4. \A f : Judged("ok", f \in approved) # None
    BY PoolAssumption DEF Judged
  <2>5. \A f \in Findings : (f \in found[p] \cap Known[p]) <=> (verdict'[p][f] # None)
    BY <2>3, <2>4
  <2>6. \A o \in Packs \ {p} : verdict'[o] = verdict[o]
    BY <1>1, <2>1
  <2>7. CASE Misses(p) = {}
    <3>1. EndAttempt(p, "ok", "ok")
      BY <1>3, <2>7 DEF ReadVerifications
    <3>2. stage' = [stage EXCEPT ![p] = "finished"]
      BY <3>1 DEF EndAttempt, FallsBack
    <3>3. Last(runs'[p]) = [key |-> Key(p), status |-> "ok"]
      BY <3>1, EndAttemptRuns
    <3>4. Settled(p)'
      BY <2>2, <2>5, <2>7, <3>3 DEF Settled, Misses
    <3> QED
      BY <1>1, <2>2, <2>6, <3>2, <3>4
  <2>8. CASE Misses(p) # {}
    <3>1. stage' = [stage EXCEPT ![p] = "admit"]
      BY <1>3, <2>8 DEF ReadVerifications
    <3> QED
      BY <1>1, <2>2, <2>5, <2>6, <3>1
  <2> QED
    BY <2>7, <2>8
<1>4. CASE \E status, reported, cause :
              /\ EndAttempt(p, status, cause) /\ Keep(p, status, reported)
              /\ status \in Failed \cup {"ok", "skipped"} /\ stage[p] \in {"admit", "record"}
  <2>1. PICK status, reported, cause :
              /\ EndAttempt(p, status, cause) /\ Keep(p, status, reported)
              /\ status \in Failed \cup {"ok", "skipped"} /\ stage[p] \in {"admit", "record"}
    BY <1>4
  <2>e. Last(runs'[p]) = [key |-> Key(p), status |-> status]
    BY <2>1, EndAttemptRuns
  <2>2. Last(runs'[p]).status = status
    BY <2>e
  <2>3. \A f \in Findings : (f \in found[p] \cap Known[p]) <=> (verdict[p][f] # None)
    BY <2>1 DEF VerdictInv
  <2>4. Settled(p)'
    BY <2>1, <2>2, <2>3, KeepSettles
  <2>5. stage' = [stage EXCEPT ![p] = "finished"]
    BY <2>1 DEF EndAttempt, FallsBack
  <2> QED
    BY <1>1, <2>1, <2>4, <2>5, KeepVerdict
<1>5. CASE UNCHANGED <<found, verdict>> /\ stage[p] \in {"admit", "call", "store", "record"}
           /\ \E st \in {"admit", "call", "store", "record"} : stage' = [stage EXCEPT ![p] = st]
  BY <1>1, <1>5 DEF VerdictInv
<1>6. Admit(p) => \/ EndAttempt(p, "skipped", SkipCause(p)) /\ Keep(p, "skipped", {}) /\ stage[p] = "admit"
                  \/ stage[p] = "admit" /\ stage' = [stage EXCEPT ![p] = "call"] /\ UNCHANGED <<found, verdict>>
  BY DEF Admit, outcomes
<1>7. Record(p) => /\ EndAttempt(p, result[p], result[p]) /\ Keep(p, result[p], answer[p]) /\ stage[p] = "record"
                   /\ result[p] \in Failed \cup {"ok", "skipped"}
  BY DEF Record, TypeInv
<1>8. Answer(p) \/ Store(p) =>
         /\ UNCHANGED <<found, verdict>> /\ stage[p] \in {"call", "store"}
         /\ \E st \in {"store", "record"} : stage' = [stage EXCEPT ![p] = st]
  BY DEF Answer, Store, outcomes
<1>9. ~ ReadReview(p)
  BY DEF ReadReview
<1>10. CASE Admit(p) \/ Record(p) \/ Answer(p) \/ Store(p)
  BY <1>4, <1>5, <1>6, <1>7, <1>8, <1>10
<1> QED
  BY <1>2, <1>3, <1>9, <1>10 DEF Worker

LEMMA WorkerVerdicts == ASSUME TypeInv, PlaceInv, VerdictInv, NEW p \in Packs, Worker(p) PROVE VerdictInv'
<1>1. /\ stage[p] \in Asking /\ stage'[p] \in Asking \cup {"finished"}
      /\ stage'[p] = "lookup" => phase # "verify"
      /\ \A o \in Packs \ {p} : stage'[o] = stage[o] /\ runs'[o] = runs[o]
      /\ phase' = phase /\ queue' = queue /\ inFlight' = inFlight
  BY WorkerStage DEF pool
<1>2. p \in inFlight /\ p \notin queue /\ phase # "done"
  BY <1>1 DEF PlaceInv, Busy, Asking
<1>3. CASE phase # "verify"
  <2>1. verdict' = verdict /\ phase \in {"shallow", "deep"}
    BY <1>2, <1>3, ReviewerVerdicts DEF TypeInv, TypeOK
  <2>2. \A o \in Packs : Unjudged(o)'
    BY <2>1 DEF VerdictInv, Unjudged
  <2> QED
    BY <1>1, <2>1, <2>2 DEF VerdictInv
<1>4. CASE phase = "verify"
  <2>1. /\ found' = found /\ \A o \in Packs \ {p} : verdict'[o] = verdict[o]
        /\ stage'[p] = "finished" => Settled(p)'
        /\ stage'[p] \in {"admit", "call", "store", "record"} =>
              \A f \in Findings : (f \in found[p] \cap Known[p]) <=> (verdict'[p][f] # None)
    BY <1>4, VerifierVerdicts
  <2>2. ASSUME NEW o \in Packs \ {p}
        PROVE  Unjudged(o)' = Unjudged(o) /\ Settled(o)' = Settled(o) /\ stage'[o] = stage[o]
    BY <1>1, <2>1 DEF Unjudged, Settled
  <2>3. ASSUME NEW o \in Packs \ {p}
        PROVE  /\ o \in queue' \/ stage'[o] = "lookup" => Unjudged(o)'
               /\ o \notin queue' /\ stage'[o] \in {"waiting", "finished"} => Settled(o)'
    BY <1>1, <1>4, <2>2 DEF VerdictInv
  <2>4. ASSUME NEW o \in Packs \ {p}, stage'[o] \in {"admit", "call", "store", "record"}
        PROVE  \A f \in Findings : (f \in found'[o] \cap Known[o]) <=> (verdict'[o][f] # None)
    BY <1>1, <1>4, <2>1, <2>4 DEF VerdictInv
  <2>5. /\ ~ (p \in queue' \/ stage'[p] = "lookup")
        /\ stage'[p] # "waiting"
    BY <1>1, <1>2, <1>4 DEF Asking
  <2>6. phase' = "verify"
    BY <1>1, <1>4
  <2> QED
    BY <2>1, <2>3, <2>4, <2>5, <2>6 DEF VerdictInv
<1> QED
  BY <1>3, <1>4

LEMMA NextVerdicts == TypeInv /\ PlaceInv /\ VerdictInv /\ [Next]_vars => VerdictInv'
<1> SUFFICES ASSUME TypeInv, PlaceInv, VerdictInv, [Next]_vars PROVE VerdictInv'
  OBVIOUS
<1>1. CASE Main
  BY <1>1, CollectVerdicts, NextPhaseVerdicts DEF Main
<1>2. CASE \E p \in Packs : Worker(p)
  BY <1>2, WorkerVerdicts
<1>3. CASE UNCHANGED vars
  BY <1>3 DEF vars, pool, outcomes, VerdictInv, Unjudged, Settled
<1> QED
  BY <1>1, <1>2, <1>3 DEF Next, Done

\* When the review is over, every selected pack has a run and exactly its findings
\* have a verdict; a verifier that failed last has superseded what it did not know.
THEOREM EveryPackAccounted == Spec => []Accounted
<1>1. Spec => [](TypeInv /\ PlaceInv /\ RunsInv /\ VerdictInv)
  BY InitTyped, NextTyped, InitPlaced, NextPlaced, InitRuns, NextRuns, InitVerdicts, NextVerdicts, PTL DEF Spec
<1>2. RunsInv /\ VerdictInv => Accounted
  BY DEF RunsInv, Unfinished, VerdictInv, Settled, Accounted
<1> QED
  BY <1>1, <1>2, PTL

================================================================================
