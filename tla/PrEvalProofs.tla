------------------------------ MODULE PrEvalProofs -----------------------------
(* Theorems about replays of pull requests, for every number of cases, runs, *)
(* edits and killed processes.                                               *)
EXTENDS PrEval, WellFoundedInduction, TLAPS

\* A set of naturals that is not empty has its Min in it.
LEMMA MinIsIn == ASSUME NEW S, S \subseteq Nat, S # {} PROVE Min(S) \in S
<1> DEFINE less == OpToRel(<, Nat)
<1>1. \A m, n \in Nat : m < n => <<m, n>> \in less
  BY DEF OpToRel
<1>2. IsWellFoundedOn(less, Nat)
  BY NatLessThanWellFounded
<1> HIDE DEF less
<1>3. PICK x \in S : \A y \in S : <<y, x>> \notin less
  BY <1>2, WFMin
<1>4. ASSUME NEW y \in S PROVE x <= y
  <2>1. x \in Nat /\ y \in Nat
    OBVIOUS
  <2>2. ~ (y < x)
    BY <1>1, <1>3, <2>1, Zenon
  <2> QED
    BY <2>1, <2>2
<1>5. \E m \in S : \A y \in S : m <= y
  BY <1>4
<1> QED
  BY <1>5, Zenon DEF Min

-----------------------------------------------------------------------------
(* The inductive invariant. *)

Phases == {"none", "labels", "add", "replay", "remove", "write", "note", "exited", "killed"}
WorkerStates == [phase : Phases, fp : Fingerprints \union {None}, read : Versions \union {None},
                 raised : BOOLEAN, made : Results \union {None}]

\* The types of the variables.
Typed ==
    /\ labels \in [CaseIds -> Versions]
    /\ status \in [CaseIds -> Statuses \union {None}]
    /\ outcome \in [CaseIds -> Results \union {None}]
    /\ run \in 0 .. MaxRuns
    /\ mode \in {"idle", "supervised", "sequential"}
    /\ mode # "idle" => run \in Runs /\ option \in Options
    /\ queue \subseteq DOMAIN Cases /\ active \subseteq CaseIds
    /\ expected \in [CaseIds -> Fingerprints \union {None}]
    /\ results \in [CaseIds -> Results \union {None}]
    /\ worker \in [Workers -> WorkerStates]
    /\ lock \in Workers \union {None}
    /\ trees \subseteq [of : Workers, left : BOOLEAN]
    /\ raced \subseteq CaseIds
    /\ trouble \in 0 .. MaxTrouble

\* A finished result is scored with the labels of its fingerprint, unless
\* these changed before its replay read them.
Scored(r, c) == r.state \in Finished => r.scored = r.fp.labels \/ c \in raced
Written == \A c \in CaseIds : outcome[c] # None => Scored(outcome[c], c)

\* What a worker holds in each phase.
Holds(w) ==
    LET s == worker[w] IN
    /\ Alive(w) => s.fp \in Fingerprints
    /\ s.phase = "labels" => s.fp.labels = labels[w[2]] \/ w[2] \in raced
    /\ s.phase \in {"add", "replay", "remove"} /\ ~s.raised =>
         s.read \in Versions /\ (s.read = s.fp.labels \/ w[2] \in raced)
    /\ s.phase \in {"write", "note"} /\ ~s.raised =>
         s.made \in Results /\ s.made.fp = s.fp /\ Scored(s.made, w[2])
    /\ s.phase = "note" => ~s.raised
    /\ s.phase \in {"note", "exited"} /\ ~s.raised => outcome[w[2]] # None
WorkersHold == \A w \in Workers : Holds(w)

\* What the current run holds of a case it has started and not collected.
Started(c) ==
    LET s == worker[<<run, c>>] IN
    /\ expected[c] \in Fingerprints /\ expected[c].option = option
    /\ Alive(<<run, c>>) => s.fp.option = option
    /\ s.phase = "exited" /\ mode = "supervised" => ~s.raised
    /\ s.phase = "exited" /\ mode = "sequential" /\ ~s.raised =>
         s.made \in Results /\ s.made.fp.option = option
Queued(c) == \E i \in queue : Cases[i] = c
Reported(c) == results[c] # None /\ results[c].fp.option = option
RunHolds ==
    mode # "idle" =>
      /\ \A c \in active : Started(c)
      /\ \A c \in CaseIds : c \in active \/ Queued(c) \/ Reported(c)

\* No case is started twice in a run.
Unstarted ==
    /\ \A i \in queue : worker[<<run, Cases[i]>>].phase = "none"
    /\ \A w \in Workers : w[1] > run => worker[w].phase = "none"

IInv == Typed /\ Written /\ WorkersHold /\ RunHolds /\ Unstarted /\ TreesOfTheDead

-----------------------------------------------------------------------------
(* Types. *)

LEMMA Constants ==
    /\ Jobs \in Nat \ {0} /\ MaxRuns \in Nat /\ MaxTrouble \in Nat
    /\ Unlabelled \in Versions
    /\ DOMAIN Cases \subseteq Nat
    /\ \A i \in DOMAIN Cases : Cases[i] \in CaseIds
    /\ None \notin Fingerprints /\ None \notin Results
BY VersionsAssumption, JobsAssumption, CasesAssumption, NoneAssumption DEF CaseIds

\* A call of a next run has one of the two modes and options of the model.
LEMMA CallTyped ==
    ASSUME Typed, run < MaxRuns, NEW call \in Commands(run + 1)
    PROVE  /\ run + 1 \in Runs /\ run + 1 \in 0 .. MaxRuns
           /\ call[1] \in {"supervised", "sequential"} /\ call[2] \in Options
<1>1. run + 1 \in Runs /\ run + 1 \in 0 .. MaxRuns
  BY Constants DEF Typed, Runs
<1>2. call[1] \in {"supervised", "sequential"}
  BY <1>1, CommandsAssumption
<1>3. call[2] \in {k[2] : k \in Commands(run + 1)}
  OBVIOUS
<1>4. call[2] \in Options
  BY <1>1, <1>3, Zenon DEF Options
<1> QED
  BY <1>1, <1>2, <1>4

LEMMA FingerprintTyped ==
    ASSUME NEW o \in Options, NEW v \in Versions
    PROVE  /\ Fingerprint(o, v) \in Fingerprints
           /\ Fingerprint(o, v).option = o /\ Fingerprint(o, v).labels = v
BY DEF Fingerprint, Fingerprints

LEMMA ResultTyped ==
    ASSUME NEW state \in {"done", "quarantined", "failed", "timed_out"}, NEW fp \in Fingerprints,
           NEW scored \in Versions \union {None}
    PROVE  /\ Result(state, fp, scored) \in Results /\ Result(state, fp, scored) # None
           /\ Result(state, fp, scored).state = state /\ Result(state, fp, scored).fp = fp
           /\ Result(state, fp, scored).scored = scored
<1>1. Result(state, fp, scored) \in Results
  BY DEF Result, Results
<1> QED
  BY <1>1, Constants DEF Result

LEMMA StatusTyped ==
    ASSUME NEW state \in {"running", "done", "quarantined", "failed", "timed_out"}, NEW fp \in Fingerprints
    PROVE  Status(state, fp) \in Statuses
BY DEF Status, Statuses

LEMMA ResultFields ==
    ASSUME NEW r \in Results
    PROVE  /\ r # None /\ r.state \in {"done", "quarantined", "failed", "timed_out"}
           /\ r.fp \in Fingerprints /\ r.scored \in Versions \union {None}
BY Constants DEF Results

LEMMA InitHolds == Init => IInv
<1> SUFFICES ASSUME Init PROVE IInv
  OBVIOUS
<1>1. Typed
  BY Constants DEF Init, Typed, Idle, WorkerStates, Phases
<1>2. Written /\ RunHolds /\ TreesOfTheDead
  BY DEF Init, Written, RunHolds, TreesOfTheDead, Idle
<1>3. WorkersHold
  BY DEF Init, WorkersHold, Holds, Alive, Idle
<1>4. Unstarted
  BY DEF Init, Unstarted, Idle
<1> QED
  BY <1>1, <1>2, <1>3, <1>4 DEF IInv

LEMMA StartRunTyped ==
    ASSUME Typed, NEW call \in Commands(run + 1), NEW resume \in BOOLEAN,
           StartRun(call[1], call[2], resume)
    PROVE  Typed'
<1>1. run < MaxRuns
  BY DEF StartRun
<1>2. results' \in [CaseIds -> Results \union {None}]
  BY DEF StartRun, Typed
<1>3. queue' \subseteq DOMAIN Cases
  BY DEF StartRun, Pending
<1> QED
  BY <1>1, <1>2, <1>3, CallTyped DEF StartRun, Typed

\* The case that starts next, and its fingerprint.
LEMMA FirstQueued ==
    ASSUME Typed, queue # {}
    PROVE  Min(queue) \in queue /\ Cases[Min(queue)] \in CaseIds
BY Constants, MinIsIn DEF Typed

LEMMA RunFacts ==
    ASSUME Typed, mode # "idle", NEW c \in CaseIds
    PROVE  /\ <<run, c>> \in Workers /\ option \in Options
           /\ Fingerprint(option, labels[c]) \in Fingerprints
           /\ Fingerprint(option, labels[c]).option = option
           /\ Fingerprint(option, labels[c]).labels = labels[c]
BY FingerprintTyped DEF Typed, Workers

LEMMA StartCaseTyped == ASSUME Typed, StartCase PROVE Typed'
<1> DEFINE c == Cases[Min(queue)]
           fp == Fingerprint(option, labels[c])
           s == [Idle EXCEPT !.phase = "labels", !.fp = fp]
<1>1. c \in CaseIds
  BY FirstQueued DEF StartCase
<1>2. <<run, c>> \in Workers /\ fp \in Fingerprints
  BY <1>1, RunFacts DEF StartCase
<1>3. s \in WorkerStates /\ Status("running", fp) \in Statuses
  BY <1>2, StatusTyped DEF Idle, WorkerStates, Phases
<1>4. /\ expected' = [expected EXCEPT ![c] = fp]
      /\ status' = IF mode = "supervised" THEN [status EXCEPT ![c] = Status("running", fp)] ELSE status
      /\ worker' = [worker EXCEPT ![<<run, c>>] = s]
      /\ active' = active \union {c}
      /\ queue' \subseteq queue
      /\ UNCHANGED <<labels, outcome, run, mode, option, results, lock, trees, raced, trouble>>
  BY DEF StartCase
<1> HIDE DEF c, fp, s
<1> QED
  BY <1>1, <1>2, <1>3, <1>4 DEF Typed


\* A case is settled; its files, its worker and the lock stay well typed.
LEMMA SettleTyped ==
    ASSUME Typed, NEW c, NEW r \in Results \union {None}, Settle(c, r),
           status' \in [CaseIds -> Statuses \union {None}],
           outcome' \in [CaseIds -> Results \union {None}],
           worker' \in [Workers -> WorkerStates], lock' \in Workers \union {None},
           UNCHANGED <<labels, trees, raced, trouble>>
    PROVE  Typed'
BY DEF Settle, Typed

LEMMA FailureTyped ==
    ASSUME Typed, NEW c, NEW state \in {"failed", "timed_out"}, NEW fp \in Fingerprints,
           WriteFailure(c, state, fp)
    PROVE  /\ status' \in [CaseIds -> Statuses \union {None}]
           /\ outcome' \in [CaseIds -> Results \union {None}]
           /\ Result(state, fp, None) \in Results
<1>1. Result(state, fp, None) \in Results /\ Status(state, fp) \in Statuses
  BY ResultTyped, StatusTyped
<1> QED
  BY <1>1 DEF WriteFailure, Typed

LEMMA KillTyped ==
    ASSUME Typed, NEW w \in Workers, Kill(w)
    PROVE  worker' \in [Workers -> WorkerStates] /\ lock' \in Workers \union {None}
<1>1. Ended("killed") \in WorkerStates
  BY DEF Ended, Idle, WorkerStates, Phases
<1> QED
  BY <1>1 DEF Kill, Unlocked, Typed

\* What the run expects of an active case.
LEMMA ActiveFacts ==
    ASSUME Typed, RunHolds, mode # "idle", NEW c \in active
    PROVE  /\ c \in CaseIds /\ <<run, c>> \in Workers
           /\ expected[c] \in Fingerprints /\ expected[c].option = option
BY DEF Typed, RunHolds, Started, Workers

LEMMA OverrunTyped == ASSUME Typed, RunHolds, NEW c, Overrun(c) PROVE Typed'
<1>1. c \in active /\ mode # "idle" /\ expected[c] \in Fingerprints /\ <<run, c>> \in Workers
  BY ActiveFacts DEF Overrun
<1>2. /\ status' \in [CaseIds -> Statuses \union {None}]
      /\ outcome' \in [CaseIds -> Results \union {None}]
      /\ Result("timed_out", expected[c], None) \in Results
  BY <1>1, FailureTyped DEF Overrun
<1>3. worker' \in [Workers -> WorkerStates] /\ lock' \in Workers \union {None}
  BY <1>1, KillTyped DEF Overrun
<1> QED
  BY <1>2, <1>3, SettleTyped DEF Overrun

LEMMA CollectTyped == ASSUME Typed, RunHolds, NEW c, Collect(c) PROVE Typed'
<1>1. c \in active /\ mode # "idle" /\ expected[c] \in Fingerprints /\ c \in CaseIds
  BY ActiveFacts DEF Collect
<1>2. UNCHANGED <<worker, lock, labels, trees, raced, trouble>>
  BY DEF Collect
<1>3. worker' \in [Workers -> WorkerStates] /\ lock' \in Workers \union {None}
  BY <1>2 DEF Typed
<1>4. CASE outcome[c].fp = expected[c]
  <2>1. Settle(c, outcome[c]) /\ UNCHANGED <<status, outcome>>
    BY <1>4 DEF Collect
  <2>2. outcome[c] \in Results \union {None}
    BY <1>1 DEF Typed
  <2>3. /\ status' \in [CaseIds -> Statuses \union {None}]
        /\ outcome' \in [CaseIds -> Results \union {None}]
    BY <2>1 DEF Typed
  <2> QED
    BY <1>2, <1>3, <2>1, <2>2, <2>3, SettleTyped
<1>5. CASE outcome[c].fp # expected[c]
  <2>1. WriteFailure(c, "failed", expected[c]) /\ Settle(c, Result("failed", expected[c], None))
    BY <1>5 DEF Collect
  <2>2. /\ status' \in [CaseIds -> Statuses \union {None}]
        /\ outcome' \in [CaseIds -> Results \union {None}]
        /\ Result("failed", expected[c], None) \in Results
    BY <1>1, <2>1, FailureTyped
  <2> QED
    BY <1>2, <1>3, <2>1, <2>2, SettleTyped
<1> QED
  BY <1>4, <1>5

LEMMA CollectDeadTyped == ASSUME Typed, RunHolds, NEW c, CollectDead(c) PROVE Typed'
<1> DEFINE fp == Fingerprint(option, labels[c])
<1>1. c \in active /\ mode # "idle" /\ c \in CaseIds
  BY ActiveFacts DEF CollectDead
<1>2. fp \in Fingerprints
  BY <1>1, RunFacts
<1>3. /\ WriteFailure(c, "failed", fp) /\ Settle(c, Result("failed", fp, None))
      /\ UNCHANGED <<worker, lock, labels, trees, raced, trouble>>
  BY DEF CollectDead
<1> HIDE DEF fp
<1>4. worker' \in [Workers -> WorkerStates] /\ lock' \in Workers \union {None}
  BY <1>3 DEF Typed
<1>5. /\ status' \in [CaseIds -> Statuses \union {None}]
      /\ outcome' \in [CaseIds -> Results \union {None}]
      /\ Result("failed", fp, None) \in Results
  BY <1>2, <1>3, FailureTyped
<1> QED
  BY <1>3, <1>4, <1>5, SettleTyped

LEMMA ReturnTyped == ASSUME Typed, RunHolds, NEW c, Return(c) PROVE Typed'
<1> DEFINE fp == Fingerprint(option, labels[c])
<1>1. c \in active /\ mode # "idle" /\ c \in CaseIds /\ <<run, c>> \in Workers
  BY ActiveFacts DEF Return
<1>2. fp \in Fingerprints
  BY <1>1, RunFacts
<1>3. UNCHANGED <<worker, lock, labels, trees, raced, trouble>>
  BY DEF Return
<1>4. worker' \in [Workers -> WorkerStates] /\ lock' \in Workers \union {None}
  BY <1>3 DEF Typed
<1>5. CASE worker[<<run, c>>].raised
  <2>1. WriteFailure(c, "failed", fp) /\ Settle(c, Result("failed", fp, None))
    BY <1>5 DEF Return
  <2> HIDE DEF fp
  <2>2. /\ status' \in [CaseIds -> Statuses \union {None}]
        /\ outcome' \in [CaseIds -> Results \union {None}]
        /\ Result("failed", fp, None) \in Results
    BY <1>2, <2>1, FailureTyped
  <2> QED
    BY <1>3, <1>4, <2>1, <2>2, SettleTyped
<1>6. CASE ~worker[<<run, c>>].raised
  <2>1. Settle(c, worker[<<run, c>>].made) /\ UNCHANGED <<status, outcome>>
    BY <1>6 DEF Return
  <2>2. worker[<<run, c>>].made \in Results \union {None}
    BY <1>1 DEF Typed, WorkerStates
  <2>3. /\ status' \in [CaseIds -> Statuses \union {None}]
        /\ outcome' \in [CaseIds -> Results \union {None}]
    BY <2>1 DEF Typed
  <2> QED
    BY <1>3, <1>4, <2>1, <2>2, <2>3, SettleTyped
<1> QED
  BY <1>5, <1>6

LEMMA ReportTyped == ASSUME Typed, Report PROVE Typed'
BY DEF Report, Typed

\* A replay in progress: its record, and what a step makes of it.
LEMMA AliveFacts ==
    ASSUME Typed, WorkersHold, NEW w \in Workers, Alive(w)
    PROVE  /\ w[2] \in CaseIds /\ worker[w] \in WorkerStates
           /\ worker[w].fp \in Fingerprints /\ worker[w].raised \in BOOLEAN
           /\ worker[w].read \in Versions \union {None} /\ worker[w].made \in Results \union {None}
           /\ labels[w[2]] \in Versions
           /\ Status("running", worker[w].fp) \in Statuses
<1>1. w[2] \in CaseIds /\ worker[w] \in WorkerStates /\ worker[w].fp \in Fingerprints
  BY DEF Typed, WorkersHold, Holds, Workers
<1>2. Status("running", worker[w].fp) \in Statuses
  BY <1>1, StatusTyped
<1> QED
  BY <1>1, <1>2 DEF Typed, WorkerStates


\* A step of a replay preserves the invariant when what it leaves the worker
\* with does, and a result it writes is scored as it should be.
LEMMA WorkStep ==
    ASSUME IInv, NEW w \in Workers, Alive(w), NEW s \in WorkerStates,
           worker' = [worker EXCEPT ![w] = s],
           status' = status \/ \E st \in Statuses : status' = [status EXCEPT ![w[2]] = st],
           outcome' = outcome \/ \E r \in Results : Scored(r, w[2]) /\ outcome' = [outcome EXCEPT ![w[2]] = r],
           lock' \in {lock, w, None},
           trees' \subseteq trees \union {Tree(w, FALSE), Tree(w, TRUE)},
           \A t \in trees : t \in trees' \/ t.of = w,
           UNCHANGED <<labels, supervisor, raced>>, trouble' = trouble \/ trouble' \in 0 .. MaxTrouble,
           Holds(w)',
           mode # "idle" /\ w = <<run, w[2]>> /\ w[2] \in active => Started(w[2])',
           \A t \in trees' : t.of = w => t.left \/ s.phase \in {"replay", "remove", "killed"},
           s.phase = "replay" => Tree(w, FALSE) \in trees'
    PROVE  IInv'
<1>1. /\ labels' = labels /\ raced' = raced /\ trouble' \in 0 .. MaxTrouble
      /\ run' = run /\ mode' = mode /\ option' = option /\ queue' = queue /\ active' = active
      /\ expected' = expected /\ results' = results
  BY DEF supervisor, IInv, Typed
<1>2. w[2] \in CaseIds
  BY DEF Workers
<1>3. \A v \in Workers \ {w} : worker'[v] = worker[v]
  BY DEF IInv, Typed
<1>4. worker'[w] = s
  BY DEF IInv, Typed
<1>5. Typed'
  <2>1. trees' \subseteq [of : Workers, left : BOOLEAN]
    <3>1. {Tree(w, FALSE), Tree(w, TRUE)} \subseteq [of : Workers, left : BOOLEAN]
      BY DEF Tree
    <3> QED
      BY <3>1 DEF IInv, Typed
  <2> QED
    BY <1>1, <1>2, <2>1 DEF IInv, Typed
<1>6. \A c \in CaseIds : outcome'[c] # None =>
        outcome'[c] = outcome[c] \/ (c = w[2] /\ Scored(outcome'[c], c))
  BY <1>2 DEF IInv, Typed
<1>7. Written'
  BY <1>1, <1>6 DEF IInv, Written, Scored
<1>8. \A c \in CaseIds : outcome[c] # None => outcome'[c] # None
  BY <1>2, ResultFields DEF IInv, Typed
<1>9. WorkersHold'
  <2>1. ASSUME NEW v \in Workers \ {w} PROVE Holds(v)'
    <3>1. Holds(v) /\ v[2] \in CaseIds
      BY DEF IInv, WorkersHold, Workers
    <3> QED
      BY <1>1, <1>3, <1>8, <3>1 DEF Holds, Alive, Scored
  <2> QED
    BY <2>1 DEF WorkersHold
<1>10. RunHolds'
  <2>1. ASSUME mode # "idle", NEW c \in active, <<run, c>> # w PROVE Started(c)'
    <3>1. Started(c) /\ <<run, c>> \in Workers
      BY <2>1, ActiveFacts DEF IInv, RunHolds
    <3>2. worker'[<<run, c>>] = worker[<<run, c>>]
      BY <1>3, <2>1, <3>1
    <3> QED
      BY <1>1, <3>1, <3>2 DEF Started, Alive
  <2>2. ASSUME mode # "idle", NEW c \in active, <<run, c>> = w PROVE Started(c)'
    <3>1. c = w[2]
      BY <2>2
    <3> QED
      BY <2>2, <3>1
  <2>3. ASSUME mode # "idle", NEW c \in CaseIds PROVE (c \in active \/ Queued(c) \/ Reported(c))'
    BY <1>1, <2>3 DEF IInv, RunHolds, Queued, Reported
  <2> QED
    BY <1>1, <2>1, <2>2, <2>3 DEF RunHolds
<1>11. Unstarted'
  <2>1. ASSUME NEW i \in queue PROVE worker'[<<run, Cases[i]>>].phase = "none"
    <3>1. worker[<<run, Cases[i]>>].phase = "none"
      BY DEF IInv, Unstarted
    <3>2. <<run, Cases[i]>> # w
      BY <3>1 DEF Alive
    <3> QED
      BY <3>1, <3>2 DEF IInv, Typed
  <2>2. ASSUME NEW v \in Workers, v[1] > run PROVE worker'[v].phase = "none"
    BY <1>3, <2>2 DEF IInv, Unstarted, Alive
  <2> QED
    BY <1>1, <2>1, <2>2 DEF Unstarted
<1>12. TreesOfTheDead'
  <2>1. ASSUME NEW t \in trees', t.of # w
        PROVE  t.left \/ worker'[t.of].phase \in {"replay", "remove", "killed"}
    <3>1. t \in trees /\ t.of \in Workers
      BY <2>1 DEF IInv, Typed, Tree
    <3> QED
      BY <1>3, <2>1, <3>1 DEF IInv, TreesOfTheDead
  <2>2. ASSUME NEW t \in trees', t.of = w
        PROVE  t.left \/ worker'[t.of].phase \in {"replay", "remove", "killed"}
    BY <1>4, <2>2
  <2>3. ASSUME NEW v \in Workers \ {w}, worker'[v].phase = "replay" PROVE Tree(v, FALSE) \in trees'
    <3>1. Tree(v, FALSE) \in trees
      BY <1>3, <2>3 DEF IInv, TreesOfTheDead
    <3>2. Tree(v, FALSE).of # w
      BY DEF Tree
    <3> QED
      BY <3>1, <3>2
  <2>4. worker'[w].phase = "replay" => Tree(w, FALSE) \in trees'
    BY <1>4
  <2> QED
    BY <2>1, <2>2, <2>3, <2>4 DEF TreesOfTheDead
<1> QED
  BY <1>5, <1>7, <1>9, <1>10, <1>11, <1>12 DEF IInv

\* What the run holds of a case stays true while its replay goes on.
LEMMA StillStarted ==
    ASSUME IInv, NEW w \in Workers, Alive(w), NEW s,
           worker' = [worker EXCEPT ![w] = s], UNCHANGED supervisor,
           s.phase # "exited", s.fp = worker[w].fp,
           mode # "idle", w = <<run, w[2]>>, w[2] \in active
    PROVE  Started(w[2])'
<1>1. Started(w[2]) /\ Alive(<<run, w[2]>>)
  BY DEF IInv, RunHolds
<1>2. worker'[<<run, w[2]>>] = s
  BY DEF IInv, Typed
<1> QED
  BY <1>1, <1>2 DEF Started, supervisor

LEMMA ReadLabelsHolds == ASSUME IInv, NEW w \in Workers, ReadLabels(w) PROVE IInv'
<1> DEFINE v == labels[w[2]]
           made == IF v \in Quarantined THEN Result("quarantined", worker[w].fp, v) ELSE None
           s == [worker[w] EXCEPT !.read = v, !.phase = IF v \in Quarantined THEN "write" ELSE "add", !.made = made]
<1>1. Alive(w) /\ worker[w].phase = "labels"
  BY DEF ReadLabels, At, Alive
<1>2. /\ w[2] \in CaseIds /\ worker[w] \in WorkerStates /\ worker[w].fp \in Fingerprints
      /\ v \in Versions /\ Status("running", worker[w].fp) \in Statuses
      /\ Result("quarantined", worker[w].fp, v) \in Results
  BY <1>1, AliveFacts, ResultTyped DEF IInv
<1>3. /\ worker' = [worker EXCEPT ![w] = s]
      /\ status' = [status EXCEPT ![w[2]] = Status("running", worker[w].fp)]
      /\ UNCHANGED <<labels, outcome, supervisor, lock, trees, raced, trouble>>
  BY <1>2 DEF ReadLabels, NoteRunning, IInv, Typed, WorkerStates
<1>4. s \in WorkerStates /\ s.phase \in {"write", "add"} /\ s.fp = worker[w].fp
  BY <1>2 DEF WorkerStates, Phases
<1>5. Holds(w)'
  <2>1. worker'[w] = s
    BY <1>3 DEF IInv, Typed
  <2>2. Holds(w)
    BY DEF IInv, WorkersHold
  <2>3. worker[w].fp.labels = v \/ w[2] \in raced
    BY <1>1, <2>2 DEF Holds
  <2>4. /\ s.read = v /\ s.raised = worker[w].raised /\ s.made = made
        /\ s.phase = IF v \in Quarantined THEN "write" ELSE "add"
    BY <1>2 DEF WorkerStates
  <2>5. /\ Result("quarantined", worker[w].fp, v).fp = worker[w].fp
        /\ Result("quarantined", worker[w].fp, v).scored = v
    BY DEF Result
  <2>6. /\ s.phase = "write" => s.made \in Results /\ s.made.fp = s.fp
        /\ s.phase = "write" => s.made.scored = s.made.fp.labels \/ w[2] \in raced
        /\ s.phase = "add" => s.read \in Versions /\ (s.read = s.fp.labels \/ w[2] \in raced)
    BY <1>2, <1>4, <2>3, <2>4, <2>5
  <2> HIDE DEF s
  <2> QED
    BY <1>2, <1>3, <1>4, <2>1, <2>6 DEF Holds, Alive, Scored
<1>6. mode # "idle" /\ w = <<run, w[2]>> /\ w[2] \in active => Started(w[2])'
  BY <1>1, <1>3, <1>4, StillStarted
<1>7. \A t \in trees' : t.of = w => t.left
  BY <1>1, <1>3 DEF IInv, TreesOfTheDead
<1> HIDE DEF s
<1> QED
  BY <1>1, <1>2, <1>3, <1>4, <1>5, <1>6, <1>7, WorkStep

LEMMA FailEarlyHolds == ASSUME IInv, NEW w \in Workers, FailEarly(w) PROVE IInv'
<1> DEFINE s == Raised(w, "write")
<1>1. Alive(w) /\ worker[w].phase \in {"labels", "add"}
  BY DEF FailEarly, Alive
<1>2. worker[w].fp \in Fingerprints
  BY <1>1, AliveFacts DEF IInv
<1>3. /\ worker' = [worker EXCEPT ![w] = s] /\ lock' \in {lock, None}
      /\ UNCHANGED <<labels, status, outcome, supervisor, trees, raced, trouble>>
  BY DEF FailEarly, Unlocked
<1>4. s \in WorkerStates /\ s.phase = "write" /\ s.fp = worker[w].fp /\ s.raised
  BY <1>2 DEF Raised, Idle, WorkerStates, Phases
<1>5. worker'[w] = s
  BY <1>3 DEF IInv, Typed
<1> HIDE DEF s
<1>6. Holds(w)'
  BY <1>2, <1>4, <1>5 DEF Holds, Alive
<1>7. mode # "idle" /\ w = <<run, w[2]>> /\ w[2] \in active => Started(w[2])'
  BY <1>1, <1>3, <1>4, StillStarted
<1>8. \A t \in trees' : t.of = w => t.left
  BY <1>1, <1>3 DEF IInv, TreesOfTheDead
<1> QED
  BY <1>1, <1>3, <1>4, <1>6, <1>7, <1>8, WorkStep

\* The lock says nothing about a replay.
LEMMA LockHolds == ASSUME IInv, NEW w \in Workers, Lock(w) PROVE IInv'
<1>1. lock' = w /\ UNCHANGED <<labels, status, outcome, supervisor, worker, trees, raced, trouble>>
  BY DEF Lock
<1>2. Typed'
  BY <1>1 DEF IInv, Typed, supervisor
<1>3. Written' /\ RunHolds' /\ Unstarted' /\ TreesOfTheDead'
  BY <1>1 DEF IInv, Written, Scored, RunHolds, Started, Alive, Queued, Reported, Unstarted, TreesOfTheDead, supervisor
<1>4. WorkersHold'
  BY <1>1 DEF IInv, WorkersHold, Holds, Alive, Scored
<1> QED
  BY <1>2, <1>3, <1>4 DEF IInv

LEMMA AddTreeHolds == ASSUME IInv, NEW w \in Workers, AddTree(w) PROVE IInv'
<1> DEFINE s == [worker[w] EXCEPT !.phase = "replay"]
<1>1. Alive(w) /\ worker[w].phase = "add"
  BY DEF AddTree, At, Alive
<1>2. /\ worker[w] \in WorkerStates /\ worker[w].fp \in Fingerprints
      /\ Status("running", worker[w].fp) \in Statuses
  BY <1>1, AliveFacts DEF IInv
<1>3. /\ worker' = [worker EXCEPT ![w] = s] /\ lock' = None /\ trees' = trees \union {Tree(w, FALSE)}
      /\ status' = [status EXCEPT ![w[2]] = Status("running", worker[w].fp)]
      /\ UNCHANGED <<labels, outcome, supervisor, raced, trouble>>
  BY DEF AddTree, Go, NoteRunning
<1>4. /\ s \in WorkerStates /\ s.phase = "replay" /\ s.fp = worker[w].fp
      /\ s.read = worker[w].read /\ s.raised = worker[w].raised
  BY <1>2 DEF WorkerStates, Phases
<1>5. worker'[w] = s
  BY <1>3 DEF IInv, Typed
<1> HIDE DEF s
<1>6. Holds(w)'
  BY <1>1, <1>3, <1>4, <1>5 DEF IInv, WorkersHold, Holds, Alive
<1>7. mode # "idle" /\ w = <<run, w[2]>> /\ w[2] \in active => Started(w[2])'
  BY <1>1, <1>3, <1>4, StillStarted
<1>8. \A t \in trees' : t.of = w => t.left \/ s.phase \in {"replay", "remove", "killed"}
  BY <1>4
<1>9. Tree(w, FALSE) \in trees'
  BY <1>3
<1> QED
  BY <1>1, <1>2, <1>3, <1>4, <1>6, <1>7, <1>8, <1>9, WorkStep

LEMMA AddFailsHolds == ASSUME IInv, NEW w \in Workers, AddFails(w) PROVE IInv'
<1> DEFINE s == Raised(w, "write")
<1>1. Alive(w) /\ worker[w].phase = "add" /\ trouble < MaxTrouble /\ trouble' = trouble + 1
  BY DEF AddFails, At, Alive
<1>2. worker[w].fp \in Fingerprints
  BY <1>1, AliveFacts DEF IInv
<1>3. /\ worker' = [worker EXCEPT ![w] = s] /\ lock' = None /\ trees' = trees \union {Tree(w, TRUE)}
      /\ UNCHANGED <<labels, status, outcome, supervisor, raced>>
  BY DEF AddFails
<1>4. s \in WorkerStates /\ s.phase = "write" /\ s.fp = worker[w].fp /\ s.raised
  BY <1>2 DEF Raised, Idle, WorkerStates, Phases
<1>5. worker'[w] = s
  BY <1>3 DEF IInv, Typed
<1> HIDE DEF s
<1>6. Holds(w)'
  BY <1>2, <1>4, <1>5 DEF Holds, Alive
<1>7. mode # "idle" /\ w = <<run, w[2]>> /\ w[2] \in active => Started(w[2])'
  BY <1>1, <1>3, <1>4, StillStarted
<1>8. \A t \in trees' : t.of = w => t.left
  BY <1>1, <1>3 DEF IInv, TreesOfTheDead, Tree
<1>9. trouble' \in 0 .. MaxTrouble
  BY <1>1, Constants DEF IInv, Typed
<1> QED
  BY <1>1, <1>3, <1>4, <1>6, <1>7, <1>8, <1>9, WorkStep

LEMMA ReplayHolds == ASSUME IInv, NEW w \in Workers, NEW raises \in BOOLEAN, Replay(w, raises) PROVE IInv'
<1> DEFINE s == IF raises THEN Raised(w, "remove") ELSE [worker[w] EXCEPT !.phase = "remove"]
<1>1. Alive(w) /\ worker[w].phase = "replay"
  BY DEF Replay, At, Alive
<1>2. worker[w] \in WorkerStates /\ worker[w].fp \in Fingerprints
  BY <1>1, AliveFacts DEF IInv
<1>3. /\ worker' = [worker EXCEPT ![w] = s]
      /\ UNCHANGED <<labels, status, outcome, supervisor, lock, trees, raced, trouble>>
  BY DEF Replay
<1>4. /\ s \in WorkerStates /\ s.phase = "remove" /\ s.fp = worker[w].fp
      /\ s.raised \/ (s.read = worker[w].read /\ ~worker[w].raised)
  BY <1>2 DEF Raised, Idle, WorkerStates, Phases
<1>5. worker'[w] = s
  BY <1>3 DEF IInv, Typed
<1> HIDE DEF s
<1>6. Holds(w)'
  BY <1>1, <1>3, <1>4, <1>5 DEF IInv, WorkersHold, Holds, Alive
<1>7. mode # "idle" /\ w = <<run, w[2]>> /\ w[2] \in active => Started(w[2])'
  BY <1>1, <1>3, <1>4, StillStarted
<1> QED
  BY <1>1, <1>3, <1>4, <1>6, <1>7, WorkStep

LEMMA RemoveTreeHolds ==
    ASSUME IInv, NEW w \in Workers, NEW fails \in BOOLEAN, RemoveTree(w, fails)
    PROVE  IInv'
<1> DEFINE done == Result("done", worker[w].fp, worker[w].read)
           s == [worker[w] EXCEPT !.phase = "write", !.made = IF worker[w].raised THEN None ELSE done]
<1>1. Alive(w) /\ worker[w].phase = "remove"
  BY DEF RemoveTree, At, Alive
<1>2. worker[w] \in WorkerStates /\ worker[w].fp \in Fingerprints /\ done \in Results
  BY <1>1, AliveFacts, ResultTyped DEF IInv
<1>3. /\ worker' = [worker EXCEPT ![w] = s] /\ lock' = None
      /\ trees' = IF fails THEN WithoutTree(w) \union {Tree(w, TRUE)} ELSE WithoutTree(w)
      /\ UNCHANGED <<labels, status, outcome, supervisor, raced>>
  BY <1>2 DEF RemoveTree, IInv, Typed, WorkerStates
<1>4. /\ s \in WorkerStates /\ s.phase = "write" /\ s.fp = worker[w].fp /\ s.raised = worker[w].raised
      /\ s.made = IF worker[w].raised THEN None ELSE done
  BY <1>2 DEF WorkerStates, Phases
<1>5. worker'[w] = s
  BY <1>3 DEF IInv, Typed
<1> HIDE DEF s
<1>6. Holds(w)'
  <2>1. done.fp = worker[w].fp /\ done.scored = worker[w].read
    BY DEF Result
  <2>2. ~worker[w].raised => worker[w].read = worker[w].fp.labels \/ w[2] \in raced
    BY <1>1 DEF IInv, WorkersHold, Holds
  <2>3. ~s.raised => s.made \in Results /\ s.made.fp = s.fp /\ (s.made.scored = s.made.fp.labels \/ w[2] \in raced)
    BY <1>2, <1>4, <2>1, <2>2
  <2> QED
    BY <1>2, <1>3, <1>4, <1>5, <2>3 DEF Holds, Alive, Scored
<1>7. mode # "idle" /\ w = <<run, w[2]>> /\ w[2] \in active => Started(w[2])'
  BY <1>1, <1>3, <1>4, StillStarted
<1>8. /\ trees' \subseteq trees \union {Tree(w, TRUE)}
      /\ \A t \in trees : t \in trees' \/ t.of = w
      /\ \A t \in trees' : t.of = w => t.left
  BY <1>3 DEF WithoutTree, Tree
<1>9. trouble' \in 0 .. MaxTrouble
  BY Constants DEF RemoveTree, IInv, Typed
<1> QED
  BY <1>1, <1>3, <1>4, <1>6, <1>7, <1>8, <1>9, WorkStep

LEMMA WriteResultHolds == ASSUME IInv, NEW w \in Workers, WriteResult(w) PROVE IInv'
<1>1. Alive(w) /\ worker[w].phase = "write"
  BY DEF WriteResult, At, Alive
<1>2. /\ w[2] \in CaseIds /\ worker[w] \in WorkerStates /\ worker[w].fp \in Fingerprints
      /\ worker[w].raised \in BOOLEAN
  BY <1>1, AliveFacts DEF IInv
<1>3. UNCHANGED <<labels, status, supervisor, lock, trees, raced, trouble>>
  BY DEF WriteResult
<1>4. \A t \in trees' : t.of = w => t.left
  BY <1>1, <1>3 DEF IInv, TreesOfTheDead
<1>5. CASE worker[w].raised /\ InProcess(w)
  <2> DEFINE s == [Ended("exited") EXCEPT !.raised = TRUE]
  <2>1. worker' = [worker EXCEPT ![w] = s] /\ outcome' = outcome
    BY <1>5 DEF WriteResult
  <2>2. s \in WorkerStates /\ s.phase = "exited" /\ s.raised
    BY DEF Ended, Idle, WorkerStates, Phases
  <2>3. worker'[w] = s
    BY <2>1 DEF IInv, Typed
  <2> HIDE DEF s
  <2>4. Holds(w)'
    BY <2>2, <2>3 DEF Holds, Alive
  <2>5. mode # "idle" /\ w = <<run, w[2]>> /\ w[2] \in active => Started(w[2])'
    <3> SUFFICES ASSUME mode # "idle", w = <<run, w[2]>>, w[2] \in active PROVE Started(w[2])'
      OBVIOUS
    <3>1. Started(w[2])
      BY DEF IInv, RunHolds
    <3> QED
      BY <1>3, <1>5, <2>2, <2>3, <3>1 DEF Started, Alive, supervisor, InProcess
  <2> QED
    BY <1>1, <1>3, <1>4, <2>1, <2>2, <2>4, <2>5, WorkStep
<1>6. CASE ~(worker[w].raised /\ InProcess(w))
  <2> DEFINE failed == Result("failed", worker[w].fp, None)
             r == IF worker[w].raised THEN failed ELSE worker[w].made
             s == [Idle EXCEPT !.phase = "note", !.fp = worker[w].fp, !.made = r]
  <2>1. worker' = [worker EXCEPT ![w] = s] /\ outcome' = [outcome EXCEPT ![w[2]] = r]
    BY <1>6 DEF WriteResult
  <2>2. /\ failed \in Results /\ failed.fp = worker[w].fp /\ failed.state = "failed"
    BY <1>2, ResultTyped
  <2>3. ~worker[w].raised =>
          /\ worker[w].made \in Results /\ worker[w].made.fp = worker[w].fp
          /\ Scored(worker[w].made, w[2])
    BY <1>1 DEF IInv, WorkersHold, Holds
  <2>4. r \in Results /\ r.fp = worker[w].fp /\ Scored(r, w[2])
    BY <2>2, <2>3 DEF Scored, Finished
  <2> HIDE DEF r
  <2>5. /\ s \in WorkerStates /\ s.phase = "note" /\ s.fp = worker[w].fp /\ ~s.raised /\ s.made = r
    BY <1>2, <2>4 DEF Idle, WorkerStates, Phases
  <2>6. worker'[w] = s /\ outcome'[w[2]] = r
    BY <1>2, <2>1 DEF IInv, Typed
  <2> HIDE DEF s
  <2>7. Holds(w)'
    BY <1>2, <1>3, <2>4, <2>5, <2>6, ResultFields DEF Holds, Alive, Scored
  <2>8. mode # "idle" /\ w = <<run, w[2]>> /\ w[2] \in active => Started(w[2])'
    BY <1>1, <1>3, <2>1, <2>5, StillStarted
  <2> QED
    BY <1>1, <1>3, <1>4, <2>1, <2>4, <2>5, <2>7, <2>8, WorkStep
<1> QED
  BY <1>5, <1>6

LEMMA WriteStatusHolds == ASSUME IInv, NEW w \in Workers, WriteStatus(w) PROVE IInv'
<1> DEFINE made == IF InProcess(w) THEN worker[w].made ELSE None
           s == [Ended("exited") EXCEPT !.made = made]
           st == Status(worker[w].made.state, worker[w].fp)
<1>1. Alive(w) /\ worker[w].phase = "note"
  BY DEF WriteStatus, At, Alive
<1>2. /\ w[2] \in CaseIds /\ worker[w] \in WorkerStates /\ worker[w].fp \in Fingerprints
      /\ worker[w].raised \in BOOLEAN
  BY <1>1, AliveFacts DEF IInv
<1>3. /\ worker[w].made.state \in {"done", "quarantined", "failed", "timed_out"}
      /\ worker[w].made \in Results /\ worker[w].made.fp = worker[w].fp /\ outcome[w[2]] # None
  BY <1>1, ResultFields DEF IInv, WorkersHold, Holds
<1>4. st \in Statuses
  BY <1>2, <1>3, StatusTyped
<1>5. /\ worker' = [worker EXCEPT ![w] = s] /\ status' = [status EXCEPT ![w[2]] = st]
      /\ UNCHANGED <<labels, outcome, supervisor, lock, trees, raced, trouble>>
  BY DEF WriteStatus
<1> HIDE DEF st
<1>6. s \in WorkerStates /\ s.phase = "exited" /\ ~s.raised /\ s.made = made
  BY <1>3 DEF Ended, Idle, WorkerStates, Phases
<1>7. worker'[w] = s
  BY <1>5 DEF IInv, Typed
<1> HIDE DEF s
<1>8. Holds(w)'
  BY <1>3, <1>5, <1>6, <1>7 DEF Holds, Alive
<1>9. mode # "idle" /\ w = <<run, w[2]>> /\ w[2] \in active => Started(w[2])'
  <2> SUFFICES ASSUME mode # "idle", w = <<run, w[2]>>, w[2] \in active PROVE Started(w[2])'
    OBVIOUS
  <2>1. Started(w[2]) /\ worker[w].fp.option = option
    BY <1>1 DEF IInv, RunHolds, Started
  <2>2. w[1] = run
    OBVIOUS
  <2>3. mode = "sequential" => s.made = worker[w].made
    BY <1>6, <2>2 DEF InProcess
  <2> QED
    BY <1>3, <1>5, <1>6, <1>7, <2>1, <2>3 DEF Started, Alive, supervisor
<1>10. \A t \in trees' : t.of = w => t.left
  BY <1>1, <1>5 DEF IInv, TreesOfTheDead
<1> QED
  BY <1>1, <1>4, <1>5, <1>6, <1>8, <1>9, <1>10, WorkStep

LEMMA KillWorkerHolds == ASSUME IInv, NEW w \in Workers, KillWorker(w) PROVE IInv'
<1> DEFINE s == Ended("killed")
<1>1. Alive(w) /\ trouble < MaxTrouble /\ trouble' = trouble + 1
  BY DEF KillWorker
<1>2. /\ worker' = [worker EXCEPT ![w] = s] /\ lock' \in {lock, None}
      /\ UNCHANGED <<labels, status, outcome, supervisor, trees, raced>>
  BY DEF KillWorker, Kill, Unlocked
<1>3. s \in WorkerStates /\ s.phase = "killed"
  BY DEF Ended, Idle, WorkerStates, Phases
<1>4. worker'[w] = s
  BY <1>2 DEF IInv, Typed
<1> HIDE DEF s
<1>5. Holds(w)'
  BY <1>3, <1>4 DEF Holds, Alive
<1>6. mode # "idle" /\ w = <<run, w[2]>> /\ w[2] \in active => Started(w[2])'
  <2> SUFFICES ASSUME mode # "idle", w = <<run, w[2]>>, w[2] \in active PROVE Started(w[2])'
    OBVIOUS
  <2>1. Started(w[2])
    BY DEF IInv, RunHolds
  <2> QED
    BY <1>2, <1>3, <1>4, <2>1 DEF Started, Alive, supervisor
<1>7. trouble' \in 0 .. MaxTrouble
  BY <1>1, Constants DEF IInv, Typed
<1> QED
  BY <1>1, <1>2, <1>3, <1>5, <1>6, <1>7, WorkStep

-----------------------------------------------------------------------------
(* Steps of the supervisor. *)

\* A case is settled with a result of the options of the run, possibly after
\* a result was written and the worker was killed.
LEMMA SettleStep ==
    ASSUME IInv, mode # "idle", NEW c \in active, NEW r \in Results, r.fp.option = option, Settle(c, r),
           outcome' = outcome \/ \E e \in Results : Scored(e, c) /\ outcome' = [outcome EXCEPT ![c] = e],
           worker' = worker \/ (Alive(<<run, c>>) /\ worker' = [worker EXCEPT ![<<run, c>>] = Ended("killed")]),
           Typed', UNCHANGED <<labels, trees, raced>>
    PROVE  IInv'
<1>1. /\ run' = run /\ mode' = mode /\ option' = option /\ queue' = queue /\ active' = active \ {c}
      /\ results' = [results EXCEPT ![c] = r] /\ expected' = [expected EXCEPT ![c] = None]
  BY DEF Settle
<1>2. c \in CaseIds /\ <<run, c>> \in Workers
  BY ActiveFacts DEF IInv
<1>3. /\ \A w \in Workers : worker'[w] = worker[w] \/ (Alive(w) /\ w = <<run, c>> /\ worker'[w].phase = "killed")
  BY <1>2 DEF IInv, Typed, Ended, Idle
<1>4. \A d \in CaseIds : outcome'[d] # None => outcome'[d] = outcome[d] \/ Scored(outcome'[d], d)
  BY <1>2 DEF IInv, Typed
<1>5. \A d \in CaseIds : outcome[d] # None => outcome'[d] # None
  BY <1>2, ResultFields DEF IInv, Typed
<1>6. Written'
  BY <1>4 DEF IInv, Written, Scored
<1>7. WorkersHold'
  <2>1. ASSUME NEW w \in Workers, worker'[w] = worker[w] PROVE Holds(w)'
    <3>1. Holds(w) /\ w[2] \in CaseIds
      BY DEF IInv, WorkersHold, Workers
    <3> QED
      BY <1>5, <2>1, <3>1 DEF Holds, Alive, Scored
  <2>2. ASSUME NEW w \in Workers, worker'[w].phase = "killed" PROVE Holds(w)'
    BY <2>2 DEF Holds, Alive
  <2> QED
    BY <1>3, <2>1, <2>2 DEF WorkersHold
<1>8. RunHolds'
  <2>1. ASSUME NEW d \in active, d # c PROVE Started(d)'
    <3>1. Started(d) /\ <<run, d>> \in Workers /\ d \in CaseIds
      BY ActiveFacts DEF IInv, RunHolds
    <3>2. worker'[<<run, d>>] = worker[<<run, d>>]
      BY <1>3, <2>1, <3>1
    <3>3. expected'[d] = expected[d]
      BY <1>1, <2>1, <3>1 DEF IInv, Typed
    <3> QED
      BY <1>1, <3>1, <3>2, <3>3 DEF Started, Alive
  <2>2. ASSUME NEW d \in CaseIds PROVE (d \in active \/ Queued(d) \/ Reported(d))'
    <3>1. d = c => results'[d] = r /\ r # None
      BY <1>1, <1>2, ResultFields DEF IInv, Typed
    <3>2. d # c => results'[d] = results[d]
      BY <1>1 DEF IInv, Typed
    <3>3. d \in active \/ Queued(d) \/ Reported(d)
      BY DEF IInv, RunHolds
    <3> QED
      BY <1>1, <3>1, <3>2, <3>3 DEF Queued, Reported
  <2> QED
    BY <1>1, <2>1, <2>2 DEF RunHolds
<1>9. Unstarted'
  <2>1. ASSUME NEW i \in queue PROVE worker'[<<run, Cases[i]>>].phase = "none"
    <3>1. worker[<<run, Cases[i]>>].phase = "none" /\ <<run, Cases[i]>> \in Workers
      BY RunFacts, Constants DEF IInv, Unstarted, Typed
    <3> QED
      BY <1>3, <3>1 DEF Alive
  <2>2. ASSUME NEW w \in Workers, w[1] > run PROVE worker'[w].phase = "none"
    BY <1>3, <2>2 DEF IInv, Unstarted, Alive
  <2> QED
    BY <1>1, <2>1, <2>2 DEF Unstarted
<1>10. TreesOfTheDead'
  BY <1>3 DEF IInv, Typed, TreesOfTheDead
<1> QED
  BY <1>6, <1>7, <1>8, <1>9, <1>10 DEF IInv

\* A failure the supervisor records is scored with nothing.
LEMMA FailureScored ==
    ASSUME NEW c, NEW state \in {"failed", "timed_out"}, NEW fp \in Fingerprints,
           WriteFailure(c, state, fp)
    PROVE  \E e \in Results : Scored(e, c) /\ outcome' = [outcome EXCEPT ![c] = e]
<1>1. Scored(Result(state, fp, None), c)
  BY DEF Scored, Result, Finished
<1> QED
  BY <1>1, ResultTyped DEF WriteFailure

LEMMA OverrunHolds == ASSUME IInv, NEW c, Overrun(c) PROVE IInv'
<1>1. /\ c \in active /\ mode # "idle" /\ c \in CaseIds
      /\ expected[c] \in Fingerprints /\ expected[c].option = option
  BY ActiveFacts DEF Overrun, IInv
<1>2. /\ Result("timed_out", expected[c], None) \in Results
      /\ Result("timed_out", expected[c], None).fp = expected[c]
  BY <1>1, ResultTyped
<1>3. \E e \in Results : Scored(e, c) /\ outcome' = [outcome EXCEPT ![c] = e]
  BY <1>1, FailureScored DEF Overrun
<1> QED
  BY <1>1, <1>2, <1>3, OverrunTyped, SettleStep DEF Overrun, Kill, IInv

LEMMA CollectHolds == ASSUME IInv, NEW c, Collect(c) PROVE IInv'
<1>1. /\ c \in active /\ mode # "idle" /\ c \in CaseIds /\ <<run, c>> \in Workers
      /\ expected[c] \in Fingerprints /\ expected[c].option = option
  BY ActiveFacts DEF Collect, IInv
<1>2. Typed' /\ worker' = worker /\ UNCHANGED <<labels, trees, raced>>
  BY CollectTyped DEF Collect, IInv
<1>3. CASE outcome[c].fp = expected[c]
  <2>1. Settle(c, outcome[c]) /\ outcome' = outcome
    BY <1>3 DEF Collect
  <2>2. Started(c) /\ Holds(<<run, c>>) /\ worker[<<run, c>>].phase = "exited"
    BY <1>1 DEF Collect, IInv, RunHolds, WorkersHold
  <2>3. outcome[c] # None
    BY <1>1, <2>2 DEF Collect, Started, Holds
  <2>4. outcome[c] \in Results
    BY <1>1, <2>3 DEF IInv, Typed
  <2> QED
    BY <1>1, <1>2, <1>3, <2>1, <2>4, SettleStep
<1>4. CASE outcome[c].fp # expected[c]
  <2>1. WriteFailure(c, "failed", expected[c]) /\ Settle(c, Result("failed", expected[c], None))
    BY <1>4 DEF Collect
  <2>2. /\ Result("failed", expected[c], None) \in Results
        /\ Result("failed", expected[c], None).fp = expected[c]
    BY <1>1, ResultTyped
  <2>3. \E e \in Results : Scored(e, c) /\ outcome' = [outcome EXCEPT ![c] = e]
    BY <1>1, <2>1, FailureScored
  <2> QED
    BY <1>1, <1>2, <2>1, <2>2, <2>3, SettleStep
<1> QED
  BY <1>3, <1>4

LEMMA CollectDeadHolds == ASSUME IInv, NEW c, CollectDead(c) PROVE IInv'
<1> DEFINE fp == Fingerprint(option, labels[c])
<1>1. c \in active /\ mode # "idle" /\ c \in CaseIds
  BY ActiveFacts DEF CollectDead, IInv
<1>2. fp \in Fingerprints /\ fp.option = option
  BY <1>1, RunFacts DEF IInv
<1>3. /\ WriteFailure(c, "failed", fp) /\ Settle(c, Result("failed", fp, None))
      /\ worker' = worker /\ UNCHANGED <<labels, trees, raced>> /\ Typed'
  BY CollectDeadTyped DEF CollectDead, IInv
<1> HIDE DEF fp
<1>4. Result("failed", fp, None) \in Results /\ Result("failed", fp, None).fp = fp
  BY <1>2, ResultTyped
<1>5. \E e \in Results : Scored(e, c) /\ outcome' = [outcome EXCEPT ![c] = e]
  BY <1>2, <1>3, FailureScored
<1> QED
  BY <1>1, <1>2, <1>3, <1>4, <1>5, SettleStep

LEMMA ReturnHolds == ASSUME IInv, NEW c, Return(c) PROVE IInv'
<1> DEFINE fp == Fingerprint(option, labels[c])
<1>1. /\ c \in active /\ mode # "idle" /\ c \in CaseIds /\ mode = "sequential"
      /\ worker[<<run, c>>].phase = "exited"
  BY ActiveFacts DEF Return, IInv
<1>2. fp \in Fingerprints /\ fp.option = option
  BY <1>1, RunFacts DEF IInv
<1>3. Typed' /\ worker' = worker /\ UNCHANGED <<labels, trees, raced>>
  BY ReturnTyped DEF Return, IInv
<1>4. CASE worker[<<run, c>>].raised
  <2>1. WriteFailure(c, "failed", fp) /\ Settle(c, Result("failed", fp, None))
    BY <1>4 DEF Return
  <2> HIDE DEF fp
  <2>2. Result("failed", fp, None) \in Results /\ Result("failed", fp, None).fp = fp
    BY <1>2, ResultTyped
  <2>3. \E e \in Results : Scored(e, c) /\ outcome' = [outcome EXCEPT ![c] = e]
    BY <1>2, <2>1, FailureScored
  <2> QED
    BY <1>1, <1>2, <1>3, <2>1, <2>2, <2>3, SettleStep
<1>5. CASE ~worker[<<run, c>>].raised
  <2>1. Settle(c, worker[<<run, c>>].made) /\ outcome' = outcome
    BY <1>5 DEF Return
  <2>2. worker[<<run, c>>].made \in Results /\ worker[<<run, c>>].made.fp.option = option
    BY <1>1, <1>5 DEF IInv, RunHolds, Started
  <2> QED
    BY <1>1, <1>3, <2>1, <2>2, SettleStep
<1> QED
  BY <1>4, <1>5

LEMMA ReportHolds == ASSUME IInv, Report PROVE IInv'
<1>1. /\ mode' = "idle" /\ queue = {}
      /\ UNCHANGED <<labels, outcome, run, queue, worker, trees, raced>>
  BY DEF Report
<1>2. WorkersHold'
  BY <1>1 DEF IInv, WorkersHold, Holds, Alive, Scored
<1>3. Written' /\ RunHolds' /\ Unstarted' /\ TreesOfTheDead'
  BY <1>1 DEF IInv, Written, Scored, RunHolds, Unstarted, TreesOfTheDead
<1> QED
  BY <1>2, <1>3, ReportTyped DEF IInv

\* What a run takes over has the fingerprint of this run, and its file exists.
LEMMA TakenOver ==
    ASSUME Typed, NEW o \in Options, NEW c \in CaseIds, Resumable(c, Fingerprint(o, labels[c]))
    PROVE  /\ outcome[c] # None /\ outcome[c].state \in Finished
           /\ outcome[c].fp.option = o /\ outcome[c].fp.labels = labels[c]
BY FingerprintTyped DEF Resumable, Typed

LEMMA StartRunHolds ==
    ASSUME IInv, NEW call \in Commands(run + 1), NEW resume \in BOOLEAN,
           StartRun(call[1], call[2], resume)
    PROVE  IInv'
<1>1. run < MaxRuns /\ run + 1 \in Runs /\ call[2] \in Options
  BY CallTyped DEF StartRun, IInv
<1>2. /\ run' = run + 1 /\ option' = call[2] /\ active' = {}
      /\ queue' = Pending(call[2], resume)
      /\ UNCHANGED <<labels, status, outcome, worker, lock, trees, raced, trouble>>
  BY DEF StartRun
<1>3. \A c \in CaseIds : results'[c] =
        IF resume /\ Resumable(c, Fingerprint(call[2], labels[c])) THEN outcome[c] ELSE None
  BY DEF StartRun
<1>4. Typed'
  BY StartRunTyped DEF IInv
<1>5. Written' /\ TreesOfTheDead'
  BY <1>2 DEF IInv, Written, Scored, TreesOfTheDead
<1>6. WorkersHold'
  BY <1>2 DEF IInv, WorkersHold, Holds, Alive, Scored
<1>7. RunHolds'
  <2>1. ASSUME NEW c \in CaseIds, resume /\ Resumable(c, Fingerprint(call[2], labels[c]))
        PROVE  Reported(c)'
    BY <1>1, <1>2, <1>3, <2>1, TakenOver DEF Reported, IInv
  <2>2. ASSUME NEW c \in CaseIds, ~(resume /\ Resumable(c, Fingerprint(call[2], labels[c])))
        PROVE  Queued(c)'
    <3>1. PICK i \in DOMAIN Cases : Cases[i] = c
      BY DEF CaseIds
    <3>2. i \in queue'
      BY <1>2, <2>2, <3>1 DEF Pending
    <3> QED
      BY <3>1, <3>2 DEF Queued
  <2> QED
    BY <1>2, <2>1, <2>2 DEF RunHolds
<1>8. Unstarted'
  <2>1. run \in Nat
    BY Constants DEF IInv, Typed
  <2>2. \A w \in Workers : w[1] \in Nat /\ (w[1] >= run + 1 => worker[w].phase = "none")
    BY <2>1 DEF IInv, Unstarted, Workers, Runs
  <2>3. ASSUME NEW i \in queue' PROVE worker'[<<run', Cases[i]>>].phase = "none"
    <3>1. Cases[i] \in CaseIds
      BY <1>2, Constants DEF Pending
    <3>2. <<run + 1, Cases[i]>> \in Workers
      BY <1>1, <3>1 DEF Workers
    <3> QED
      BY <1>2, <2>1, <2>2, <3>2
  <2>4. ASSUME NEW w \in Workers, w[1] > run' PROVE worker'[w].phase = "none"
    BY <1>2, <2>1, <2>2, <2>4
  <2> QED
    BY <2>3, <2>4 DEF Unstarted
<1> QED
  BY <1>4, <1>5, <1>6, <1>7, <1>8 DEF IInv

LEMMA StartCaseHolds == ASSUME IInv, StartCase PROVE IInv'
<1>0. PICK i : i = Min(queue)
  OBVIOUS
<1> DEFINE c == Cases[i]
           fp == Fingerprint(option, labels[c])
           s == [Idle EXCEPT !.phase = "labels", !.fp = fp]
<1>1. i \in queue /\ c \in CaseIds /\ mode # "idle" /\ i \in DOMAIN Cases
  BY <1>0, FirstQueued DEF StartCase, IInv, Typed
<1>2. <<run, c>> \in Workers /\ fp \in Fingerprints /\ fp.option = option /\ fp.labels = labels[c]
  BY <1>1, RunFacts DEF IInv
<1>3. /\ expected' = [expected EXCEPT ![c] = fp]
      /\ worker' = [worker EXCEPT ![<<run, c>>] = s]
      /\ active' = active \union {c} /\ queue' = queue \ {i}
      /\ UNCHANGED <<labels, outcome, run, mode, option, results, lock, trees, raced, trouble>>
  BY <1>0 DEF StartCase
<1>4. s.phase = "labels" /\ s.fp = fp
  BY DEF Idle
<1>5. worker[<<run, c>>].phase = "none"
  BY <1>1 DEF IInv, Unstarted
<1>6. Typed'
  BY StartCaseTyped DEF IInv
<1> HIDE DEF c, fp, s
<1>7. \A w \in Workers : w # <<run, c>> => worker'[w] = worker[w]
  BY <1>2, <1>3 DEF IInv, Typed
<1>8. worker'[<<run, c>>] = s
  BY <1>2, <1>3 DEF IInv, Typed
<1>9. Written'
  BY <1>3 DEF IInv, Written, Scored
<1>10. WorkersHold'
  <2>1. ASSUME NEW w \in Workers, w # <<run, c>> PROVE Holds(w)'
    <3>1. Holds(w)
      BY DEF IInv, WorkersHold
    <3>2. worker'[w] = worker[w]
      BY <1>7, <2>1
    <3> QED
      BY <1>3, <3>1, <3>2 DEF Holds, Alive, Scored
  <2>3. ASSUME NEW w \in Workers, w = <<run, c>> PROVE Holds(w)'
    <3>1. w[2] = c
      BY <2>3
    <3>2. worker'[w] = s
      BY <1>8, <2>3
    <3> QED
      BY <1>2, <1>3, <1>4, <3>1, <3>2 DEF Holds, Alive
  <2> QED
    BY <2>1, <2>3 DEF WorkersHold
<1>11. RunHolds'
  <2>1. Started(c)'
    <3>1. expected'[c] = fp
      BY <1>1, <1>3 DEF IInv, Typed
    <3> QED
      BY <1>2, <1>3, <1>4, <1>8, <3>1 DEF Started
  <2>2. ASSUME NEW d \in active, d # c PROVE Started(d)'
    <3>1. Started(d) /\ d \in CaseIds /\ <<run, d>> \in Workers
      BY <1>1, ActiveFacts DEF IInv, RunHolds
    <3>2. worker'[<<run, d>>] = worker[<<run, d>>]
      BY <1>7, <2>2, <3>1
    <3>3. expected'[d] = expected[d]
      BY <1>3, <2>2, <3>1 DEF IInv, Typed
    <3> QED
      BY <1>3, <3>1, <3>2, <3>3 DEF Started, Alive
  <2>3. ASSUME NEW d \in CaseIds PROVE (d \in active \/ Queued(d) \/ Reported(d))'
    <3>1. d \in active \/ Queued(d) \/ Reported(d)
      BY <1>1 DEF IInv, RunHolds
    <3>2. Queued(d) => d = c \/ \E j \in queue' : Cases[j] = d
      BY <1>3 DEF Queued, c
    <3> QED
      BY <1>3, <3>1, <3>2 DEF Queued, Reported
  <2> QED
    BY <1>3, <2>1, <2>2, <2>3 DEF RunHolds
<1>12. Unstarted'
  <2>1. ASSUME NEW j \in queue' PROVE worker'[<<run, Cases[j]>>].phase = "none"
    <3>1. j \in DOMAIN Cases /\ j # i /\ j \in queue
      BY <1>3 DEF IInv, Typed
    <3>2. Cases[j] # c /\ Cases[j] \in CaseIds
      BY <1>1, <3>1, CasesAssumption, Constants DEF c
    <3>3. <<run, Cases[j]>> \in Workers
      BY <1>2, <3>2 DEF Workers
    <3> QED
      BY <1>7, <3>1, <3>2, <3>3 DEF IInv, Unstarted
  <2>2. ASSUME NEW w \in Workers, w[1] > run PROVE worker'[w].phase = "none"
    <3>1. w # <<run, c>>
      BY <2>2, Constants DEF IInv, Typed
    <3> QED
      BY <1>7, <2>2, <3>1 DEF IInv, Unstarted
  <2> QED
    BY <1>3, <2>1, <2>2 DEF Unstarted
<1>13. TreesOfTheDead'
  <2>1. \A t \in trees : t.of = <<run, c>> => t.left
    BY <1>5 DEF IInv, TreesOfTheDead
  <2> QED
    BY <1>3, <1>4, <1>7, <1>8, <2>1 DEF IInv, Typed, TreesOfTheDead
<1> QED
  BY <1>6, <1>9, <1>10, <1>11, <1>12, <1>13 DEF IInv

LEMMA EditLabelsHolds == ASSUME IInv, NEW c \in Edited, NEW v \in Versions, EditLabels(c, v) PROVE IInv'
<1>1. /\ trouble < MaxTrouble /\ trouble' = trouble + 1 /\ labels' = [labels EXCEPT ![c] = v]
      /\ UNCHANGED <<status, outcome, supervisor, worker, lock, trees>>
  BY DEF EditLabels
<1>2. /\ run' = run /\ mode' = mode /\ option' = option /\ queue' = queue /\ active' = active
      /\ expected' = expected /\ results' = results
  BY <1>1 DEF supervisor
<1>3. c \in CaseIds
  BY CasesAssumption
<1>4. raced \subseteq raced' /\ raced' \subseteq CaseIds
  BY <1>3 DEF EditLabels, IInv, Typed
<1>5. Typed'
  <2>1. trouble' \in 0 .. MaxTrouble
    BY <1>1, Constants DEF IInv, Typed
  <2>2. labels' \in [CaseIds -> Versions]
    BY <1>1 DEF IInv, Typed
  <2> QED
    BY <1>1, <1>2, <1>4, <2>1, <2>2 DEF IInv, Typed
<1>6. Written'
  BY <1>1, <1>4 DEF IInv, Written, Scored
<1>7. WorkersHold'
  <2>1. ASSUME NEW w \in Workers PROVE Holds(w)'
    <3>1. Holds(w) /\ w[2] \in CaseIds /\ w[1] \in Runs /\ w = <<w[1], w[2]>>
      BY DEF IInv, WorkersHold, Workers
    <3>2. w[2] # c => labels'[w[2]] = labels[w[2]]
      BY <1>1, <3>1 DEF IInv, Typed
    <3>3. w[2] = c /\ worker[w].phase = "labels" => w[2] \in raced'
      BY <3>1 DEF EditLabels
    <3> QED
      BY <1>1, <1>4, <3>1, <3>2, <3>3 DEF Holds, Alive, Scored
  <2> QED
    BY <2>1 DEF WorkersHold
<1>8. RunHolds' /\ Unstarted' /\ TreesOfTheDead'
  BY <1>1, <1>2 DEF IInv, RunHolds, Started, Alive, Queued, Reported, Unstarted, TreesOfTheDead
<1> QED
  BY <1>5, <1>6, <1>7, <1>8 DEF IInv

LEMMA KillRunHolds == ASSUME IInv, KillRun PROVE IInv'
<1>1. /\ mode' = "idle" /\ option' = None /\ queue' = {} /\ active' = {}
      /\ expected' = [c \in CaseIds |-> None] /\ results' = [c \in CaseIds |-> None]
      /\ trouble' = trouble + 1 /\ trouble < MaxTrouble /\ mode # "idle"
      /\ UNCHANGED <<labels, status, outcome, run, trees, raced>>
  BY DEF KillRun
<1>2. worker' = worker \/ \E w \in Workers : Alive(w) /\ worker' = [worker EXCEPT ![w] = Ended("killed")]
  <2>1. ASSUME NEW c \in active, Alive(<<run, c>>), Kill(<<run, c>>)
        PROVE  \E w \in Workers : Alive(w) /\ worker' = [worker EXCEPT ![w] = Ended("killed")]
    <3>1. <<run, c>> \in Workers
      BY <1>1, ActiveFacts DEF IInv
    <3> QED
      BY <2>1, <3>1 DEF Kill
  <2>2. \/ worker' = worker
        \/ \E c \in active : Alive(<<run, c>>) /\ Kill(<<run, c>>)
    BY Zenon DEF KillRun
  <2> QED
    BY <2>1, <2>2
<1>3. lock' \in Workers \union {None}
  BY DEF KillRun, Kill, Unlocked, IInv, Typed
<1>4. \A w \in Workers : worker'[w] = worker[w] \/ (Alive(w) /\ worker'[w] = Ended("killed"))
  BY <1>2 DEF IInv, Typed
<1>5. Ended("killed") \in WorkerStates /\ Ended("killed").phase = "killed"
  BY DEF Ended, Idle, WorkerStates, Phases
<1>6. Typed'
  <2>1. trouble' \in 0 .. MaxTrouble
    BY <1>1, Constants DEF IInv, Typed
  <2>2. worker' \in [Workers -> WorkerStates]
    BY <1>2, <1>5 DEF IInv, Typed
  <2>3. expected' \in [CaseIds -> Fingerprints \union {None}] /\ results' \in [CaseIds -> Results \union {None}]
    BY <1>1
  <2> QED
    BY <1>1, <1>3, <2>1, <2>2, <2>3 DEF IInv, Typed
<1>7. Written' /\ RunHolds'
  BY <1>1 DEF IInv, Written, Scored, RunHolds
<1>8. WorkersHold'
  <2>1. ASSUME NEW w \in Workers, worker'[w] = worker[w] PROVE Holds(w)'
    <3>1. Holds(w)
      BY DEF IInv, WorkersHold
    <3> QED
      BY <1>1, <2>1, <3>1 DEF Holds, Alive, Scored
  <2>2. ASSUME NEW w \in Workers, worker'[w] = Ended("killed") PROVE Holds(w)'
    BY <1>5, <2>2 DEF Holds, Alive
  <2> QED
    BY <1>4, <2>1, <2>2 DEF WorkersHold
<1>9. Unstarted'
  BY <1>1, <1>4 DEF IInv, Unstarted, Alive
<1>10. TreesOfTheDead'
  BY <1>1, <1>4, <1>5 DEF IInv, Typed, TreesOfTheDead
<1> QED
  BY <1>6, <1>7, <1>8, <1>9, <1>10 DEF IInv

-----------------------------------------------------------------------------
(* The theorems. *)

LEMMA WorkHolds == ASSUME IInv, NEW w \in Workers, Work(w) PROVE IInv'
BY ReadLabelsHolds, FailEarlyHolds, LockHolds, AddTreeHolds, AddFailsHolds, ReplayHolds, RemoveTreeHolds,
   WriteResultHolds, WriteStatusHolds DEF Work

LEMMA SuperviseHolds == ASSUME IInv, Supervise PROVE IInv'
BY StartCaseHolds, ReportHolds, OverrunHolds, CollectHolds, CollectDeadHolds, ReturnHolds DEF Supervise

LEMMA NextHolds == ASSUME IInv, [Next]_vars PROVE IInv'
<1>1. CASE Next
  <2>1. CASE \E call \in Commands(run + 1), resume \in BOOLEAN : StartRun(call[1], call[2], resume)
    BY <2>1, StartRunHolds
  <2>2. CASE Supervise
    BY <2>2, SuperviseHolds
  <2>3. CASE \E w \in Workers : Work(w) \/ KillWorker(w)
    BY <2>3, WorkHolds, KillWorkerHolds
  <2>4. CASE \E c \in Edited, v \in Versions : EditLabels(c, v)
    BY <2>4, EditLabelsHolds
  <2>5. CASE KillRun
    BY <2>5, KillRunHolds
  <2> QED
    BY <1>1, <2>1, <2>2, <2>3, <2>4, <2>5 DEF Next
<1>2. CASE UNCHANGED vars
  <2>1. /\ Typed' /\ Unstarted' /\ TreesOfTheDead' /\ Written'
    BY <1>2 DEF IInv, Typed, Unstarted, TreesOfTheDead, Written, Scored, vars, supervisor
  <2>2. WorkersHold' /\ RunHolds'
    BY <1>2 DEF IInv, WorkersHold, Holds, Alive, Scored, RunHolds, Started, Queued, Reported, vars, supervisor
  <2> QED
    BY <2>1, <2>2 DEF IInv
<1> QED
  BY <1>1, <1>2

LEMMA Inductive == Spec => []IInv
<1>1. IInv /\ [Next]_vars => IInv'
  BY NextHolds
<1> QED
  BY <1>1, InitHolds, PTL DEF Spec

\* The files, the run, its workers and the lock are well typed in every
\* reachable state, whatever was killed or edited when.
THEOREM TypeCorrect == Spec => []Typed
<1>1. IInv => Typed
  BY DEF IInv
<1> QED
  BY <1>1, Inductive, PTL

\* For every number of cases, runs, edits, killed processes and failures of Git, a
\* worktree is registered only while its replay uses it, after its process was killed or
\* where Git failed on it; and a replay under way has its own.
THEOREM TreesAreRemoved == Spec => []TreesOfTheDead
<1>1. IInv => TreesOfTheDead
  BY DEF IInv
<1> QED
  BY <1>1, Inductive, PTL

\* A step that starts a run takes over what it may, one that ends a run
\* reports every case.
LEMMA StepFits ==
    ASSUME IInv, Next
    PROVE  /\ mode = "idle" /\ mode' # "idle" =>
                \A c \in CaseIds : results'[c] # None =>
                   /\ results'[c].state \in Finished
                   /\ results'[c].fp.option = option'
                   /\ (results'[c].scored = labels[c] \/ c \in raced)
           /\ mode # "idle" /\ mode' = "idle" /\ queue = {} /\ active = {} =>
                \A c \in CaseIds : results[c] # None /\ results[c].fp.option = option
<1>1. ASSUME mode = "idle", mode' # "idle"
      PROVE  \E call \in Commands(run + 1), resume \in BOOLEAN : StartRun(call[1], call[2], resume)
  <2>1. CASE Supervise
    BY <1>1, <2>1 DEF Supervise, StartCase, Report, Overrun, Collect, CollectDead, Return
  <2>2. ASSUME NEW w \in Workers, Work(w) \/ KillWorker(w) PROVE mode' = mode
    BY <2>2 DEF Work, ReadLabels, FailEarly, Lock, AddTree, AddFails, Replay, RemoveTree, WriteResult, WriteStatus,
                KillWorker, supervisor
  <2>3. ASSUME NEW c \in Edited, NEW v \in Versions, EditLabels(c, v) PROVE mode' = mode
    BY <2>3 DEF EditLabels, supervisor
  <2>4. CASE KillRun
    BY <1>1, <2>4 DEF KillRun
  <2> QED
    BY <1>1, <2>1, <2>2, <2>3, <2>4 DEF Next
<1>2. ASSUME mode = "idle", mode' # "idle", NEW c \in CaseIds, results'[c] # None
      PROVE  /\ results'[c].state \in Finished
             /\ results'[c].fp.option = option'
             /\ (results'[c].scored = labels[c] \/ c \in raced)
  <2>1. PICK call \in Commands(run + 1), resume \in BOOLEAN : StartRun(call[1], call[2], resume)
    BY <1>1, <1>2
  <2>2. call[2] \in Options /\ option' = call[2]
    BY <2>1, CallTyped DEF StartRun, IInv
  <2>3. results'[c] = outcome[c] /\ Resumable(c, Fingerprint(call[2], labels[c]))
    BY <1>2, <2>1 DEF StartRun
  <2>4. /\ outcome[c] # None /\ outcome[c].state \in Finished
        /\ outcome[c].fp.option = call[2] /\ outcome[c].fp.labels = labels[c]
    BY <1>2, <2>2, <2>3, TakenOver DEF IInv
  <2> QED
    BY <1>2, <2>2, <2>3, <2>4 DEF IInv, Written, Scored
<1>3. ASSUME mode # "idle", queue = {}, active = {}, NEW c \in CaseIds
      PROVE  results[c] # None /\ results[c].fp.option = option
  BY <1>3 DEF IInv, RunHolds, Queued, Reported
<1> QED
  BY <1>2, <1>3

\* For every number of cases, runs, edits and killed processes, a resumed run
\* takes over only finished results of its options, scored with the labels as
\* they are unless these changed while a replay was about to read them; and a
\* report has a result of these options for every case.
THEOREM ResumedFit == Spec => ResumedResultsFit
<1>1. IInv /\ [Next]_vars =>
        [/\ mode = "idle" /\ mode' # "idle" =>
              \A c \in CaseIds : results'[c] # None =>
                 /\ results'[c].state \in Finished
                 /\ results'[c].fp.option = option'
                 /\ (results'[c].scored = labels[c] \/ c \in raced)
         /\ mode # "idle" /\ mode' = "idle" /\ queue = {} /\ active = {} =>
              \A c \in CaseIds : results[c] # None /\ results[c].fp.option = option]_vars
  BY StepFits
<1> QED
  BY <1>1, Inductive, PTL DEF Spec, ResumedResultsFit

===============================================================================
