-------------------------------- MODULE PrEval --------------------------------
(***************************************************************************)
(* Replays of recorded pull requests: apex-ray eval run-prs                *)
(* (pr_eval/runner.py, pr_eval/state.py, cli/eval.py).                     *)
(*                                                                         *)
(* A run computes a fingerprint for every case from its options and the    *)
(* label file of the case.  With --resume it takes over the finished       *)
(* results of the same fingerprint; the other cases are replayed, in this  *)
(* process one by one, or each in a worker process under a supervisor      *)
(* that kills the ones that overrun the timeout.  Every case has a status  *)
(* file and a result file, each replaced atomically but not together.  A   *)
(* worker that survives its supervisor goes on writing them.               *)
(***************************************************************************)
EXTENDS Integers, Sequences, FiniteSetsExt

CONSTANTS
    Cases,        \* the cases, in the order of their manifests: a sequence
    Commands(_),  \* how a run may be called: its mode and its replay options,
                  \* which are all in the fingerprint
    Versions,     \* contents of a label file
    Unlabelled,   \* the one of a case without a label file
    Quarantined,  \* those that quarantine their case
    Jobs,         \* case_jobs
    MaxRuns,      \* bound: runs
    Edited,       \* bound: cases whose label file is edited
    Failing,      \* bound: cases on whose worktree Git fails
    MaxTrouble,   \* bound: edits of these files, processes killed from outside, failures of Git
    None

ASSUME VersionsAssumption == Quarantined \subseteq Versions /\ Unlabelled \in Versions \ Quarantined
ASSUME JobsAssumption == Jobs \in Nat \ {0} /\ MaxRuns \in Nat /\ MaxTrouble \in Nat

CaseIds == {Cases[i] : i \in DOMAIN Cases}
Runs == 1 .. MaxRuns
Workers == Runs \X CaseIds

\* The manifests of a directory name different pull requests, and --pr names none twice.
ASSUME CasesAssumption ==
    /\ Cases \in Seq(CaseIds) /\ \A i, j \in DOMAIN Cases : Cases[i] = Cases[j] => i = j
    /\ Edited \subseteq CaseIds /\ Failing \subseteq CaseIds

\* What the files and the processes hold.
Options == UNION {{call[2] : call \in Commands(r)} : r \in Runs}
Fingerprints == [option : Options, labels : Versions]
Statuses == [state : {"running", "done", "quarantined", "failed", "timed_out"}, fp : Fingerprints]
Results == [state : {"done", "quarantined", "failed", "timed_out"}, fp : Fingerprints,
            scored : Versions \union {None}]

ASSUME CommandsAssumption ==
    \A r \in Runs : \A call \in Commands(r) : call[1] \in {"supervised", "sequential"}
ASSUME NoneAssumption ==
    None \notin Workers \union Fingerprints \union Statuses \union Results \union Versions

VARIABLES
    labels,     \* content of every label file
    status,     \* case-status.json of every case: [state, fp], or None
    outcome,    \* eval-result.json of every case: [state, fp, scored], or None
    run,        \* number of the current run
    mode,       \* "idle", "supervised" or "sequential"
    option,     \* its options
    queue,      \* positions in Cases of those still to start
    active,     \* cases started and not collected
    expected,   \* the fingerprint the supervisor holds for every case
    results,    \* what the run will report of every case
    worker,     \* the process of every run and case
    lock,       \* the worker that holds the worktree lock, or None
    trees,      \* the worktrees registered in the repository: whose, and whether Git
                \* failed on it and left it there
    raced,      \* cases whose label file changed before a replay that had started read it
    trouble     \* how many of the MaxTrouble edits, deaths and failures there were

supervisor == <<run, mode, option, queue, active, expected, results>>
vars == <<labels, status, outcome, supervisor, worker, lock, trees, raced, trouble>>

\* "done" stands for succeeded and partial, which nothing here tells apart.
Finished == {"done", "quarantined"}
Fingerprint(o, version) == [option |-> o, labels |-> version]
Idle == [phase |-> "none", fp |-> None, read |-> None, raised |-> FALSE, made |-> None]
Ended(phase) == [Idle EXCEPT !.phase = phase]

Init ==
    /\ labels = [c \in CaseIds |-> Unlabelled]
    /\ status = [c \in CaseIds |-> None] /\ outcome = [c \in CaseIds |-> None]
    /\ run = 0 /\ mode = "idle" /\ option = None
    /\ queue = {} /\ active = {}
    /\ expected = [c \in CaseIds |-> None] /\ results = [c \in CaseIds |-> None]
    /\ worker = [w \in Workers |-> Idle]
    /\ lock = None /\ trees = {}
    /\ raced = {} /\ trouble = 0

-----------------------------------------------------------------------------
(* The files. *)

Status(state, fp) == [state |-> state, fp |-> fp]
Result(state, fp, scored) == [state |-> state, fp |-> fp, scored |-> scored]

\* Variant: the result file is taken without a look at its fingerprint.
ResumableByStatus(c, fp) ==
    /\ status[c] # None /\ outcome[c] # None
    /\ status[c].state \in Finished /\ outcome[c].state \in Finished
    /\ status[c].fp = fp

\* load_resumable_pr_eval_result: both files are final and of this fingerprint.
Resumable(c, fp) ==
    /\ status[c] # None /\ outcome[c] # None
    /\ status[c].state \in Finished /\ outcome[c].state \in Finished
    /\ status[c].fp = fp /\ outcome[c].fp = fp

\* failed_pr_eval_result: the result, then the status.  The supervisor's two
\* writes are one step, a worker's are two.
WriteFailure(c, state, fp) ==
    /\ outcome' = [outcome EXCEPT ![c] = Result(state, fp, None)]
    /\ status' = [status EXCEPT ![c] = Status(state, fp)]

-----------------------------------------------------------------------------
(* The supervisor. *)

Pending(o, resume) ==
    {i \in DOMAIN Cases : ~(resume /\ Resumable(Cases[i], Fingerprint(o, labels[Cases[i]])))}

StartRun(m, o, resume) ==
    /\ mode = "idle" /\ run < MaxRuns
    /\ run' = run + 1 /\ mode' = m /\ option' = o
    /\ queue' = Pending(o, resume)
    /\ active' = {}
    /\ results' = [c \in CaseIds |->
                     IF resume /\ Resumable(c, Fingerprint(o, labels[c])) THEN outcome[c] ELSE None]
    /\ expected' = [c \in CaseIds |-> None]
    /\ UNCHANGED <<labels, status, outcome, worker, lock, trees, raced, trouble>>

Slots == IF mode = "supervised" THEN Jobs ELSE 1

\* The fingerprint is computed again when the case starts.
StartCase ==
    /\ mode # "idle" /\ queue # {} /\ Cardinality(active) < Slots
    /\ LET c == Cases[Min(queue)]
           fp == Fingerprint(option, labels[c])
       IN /\ expected' = [expected EXCEPT ![c] = fp]
          /\ status' = IF mode = "supervised"
                       THEN [status EXCEPT ![c] = Status("running", fp)] ELSE status
          /\ worker' = [worker EXCEPT ![<<run, c>>] = [Idle EXCEPT !.phase = "labels", !.fp = fp]]
          /\ active' = active \union {c}
    /\ queue' = queue \ {Min(queue)}
    /\ UNCHANGED <<labels, outcome, run, mode, option, results, lock, trees, raced, trouble>>

Alive(w) == worker[w].phase \notin {"none", "exited", "killed"}
Settle(c, r) ==
    /\ results' = [results EXCEPT ![c] = r]
    /\ active' = active \ {c}
    /\ expected' = [expected EXCEPT ![c] = None]
    /\ UNCHANGED <<run, mode, option, queue>>
Unlocked(w) == IF lock = w THEN None ELSE lock
Kill(w) ==
    /\ worker' = [worker EXCEPT ![w] = Ended("killed")]
    /\ lock' = Unlocked(w)

\* Variant: a case that timed out is tried again.
OverrunAgain(c) ==
    /\ mode = "supervised" /\ c \in active /\ Alive(<<run, c>>)
    /\ Kill(<<run, c>>)
    /\ WriteFailure(c, "timed_out", expected[c])
    /\ queue' = queue \union {i \in DOMAIN Cases : Cases[i] = c} /\ active' = active \ {c}
    /\ UNCHANGED <<labels, run, mode, option, expected, results, trees, raced, trouble>>

\* _terminate_case_worker: the process group dies with whatever it was doing,
\* and only then the failure is recorded.
Overrun(c) ==
    /\ mode = "supervised" /\ c \in active /\ Alive(<<run, c>>)
    /\ Kill(<<run, c>>)
    /\ WriteFailure(c, "timed_out", expected[c])
    /\ Settle(c, Result("timed_out", expected[c], None))
    /\ UNCHANGED <<labels, trees, raced, trouble>>

\* An ended worker: its result counts if the file is of this fingerprint.
Collect(c) ==
    /\ mode = "supervised" /\ c \in active /\ worker[<<run, c>>].phase = "exited"
    /\ IF outcome[c].fp = expected[c]
       THEN Settle(c, outcome[c]) /\ UNCHANGED <<status, outcome>>
       ELSE /\ WriteFailure(c, "failed", expected[c])
            /\ Settle(c, Result("failed", expected[c], None))
    /\ UNCHANGED <<labels, worker, lock, trees, raced, trouble>>

\* A worker that died: the failure carries the fingerprint of this moment.
CollectDead(c) ==
    /\ mode = "supervised" /\ c \in active /\ worker[<<run, c>>].phase = "killed"
    /\ WriteFailure(c, "failed", Fingerprint(option, labels[c]))
    /\ Settle(c, Result("failed", Fingerprint(option, labels[c]), None))
    /\ UNCHANGED <<labels, worker, lock, trees, raced, trouble>>

\* In one process the replay returns its result; what it raises is written
\* as a failure with the fingerprint of this moment.
Return(c) ==
    /\ mode = "sequential" /\ c \in active
    /\ worker[<<run, c>>].phase = "exited"
    /\ IF worker[<<run, c>>].raised
       THEN /\ WriteFailure(c, "failed", Fingerprint(option, labels[c]))
            /\ Settle(c, Result("failed", Fingerprint(option, labels[c]), None))
       ELSE /\ Settle(c, worker[<<run, c>>].made)
            /\ UNCHANGED <<status, outcome>>
    /\ UNCHANGED <<labels, worker, lock, trees, raced, trouble>>

\* The report is written from the results of all cases.
Report ==
    /\ mode # "idle" /\ queue = {} /\ active = {}
    /\ mode' = "idle" /\ option' = None
    /\ results' = [c \in CaseIds |-> None]
    /\ UNCHANGED <<labels, status, outcome, run, queue, active, expected, worker, lock,
                   trees, raced, trouble>>

-----------------------------------------------------------------------------
(* A replay: _run_one_pr_eval_case, in a worker or in the process itself. *)

At(w, phase) == worker[w].phase = phase
Raised(w, phase) == [Idle EXCEPT !.phase = phase, !.fp = worker[w].fp, !.raised = TRUE]
Go(w, phase) == worker' = [worker EXCEPT ![w].phase = phase]
InProcess(w) == w[1] = run /\ mode = "sequential"
\* Each phase of a replay is noted in the status file.
NoteRunning(w) == status' = [status EXCEPT ![w[2]] = Status("running", worker[w].fp)]

\* The label file is read; a quarantined case ends here.
ReadLabels(w) ==
    /\ At(w, "labels")
    /\ LET c == w[2]
           v == labels[c]
       IN worker' = [worker EXCEPT ![w].read = v,
                                   ![w].phase = IF v \in Quarantined THEN "write" ELSE "add",
                                   ![w].made = IF v \in Quarantined THEN Result("quarantined", worker[w].fp, v)
                                                ELSE None]
    /\ NoteRunning(w)
    /\ UNCHANGED <<labels, outcome, supervisor, lock, trees, raced, trouble>>

\* A step before the worktree exists can fail: no diff, no commit to check out.
FailEarly(w) ==
    /\ worker[w].phase \in {"labels", "add"}
    /\ worker' = [worker EXCEPT ![w] = Raised(w, "write")]
    /\ lock' = Unlocked(w)
    /\ UNCHANGED <<labels, status, outcome, supervisor, trees, raced, trouble>>

Lock(w) ==
    /\ worker[w].phase \in {"add", "remove"} /\ lock = None
    /\ lock' = w
    /\ UNCHANGED <<labels, status, outcome, supervisor, worker, trees, raced, trouble>>

Tree(w, left) == [of |-> w, left |-> left]
WithoutTree(w) == {t \in trees : t.of # w}

\* git worktree add and remove, each under the lock of the repository.
AddTree(w) ==
    /\ At(w, "add") /\ lock = w
    /\ trees' = trees \union {Tree(w, FALSE)} /\ lock' = None
    /\ Go(w, "replay")
    /\ NoteRunning(w)
    /\ UNCHANGED <<labels, outcome, supervisor, raced, trouble>>

\* It registers the worktree and then fails, outside the try that removes it.
AddFails(w) ==
    /\ At(w, "add") /\ lock = w /\ w[2] \in Failing /\ trouble < MaxTrouble
    /\ trees' = trees \union {Tree(w, TRUE)} /\ lock' = None
    /\ worker' = [worker EXCEPT ![w] = Raised(w, "write")]
    /\ trouble' = trouble + 1
    /\ UNCHANGED <<labels, status, outcome, supervisor, raced>>

\* Variant: an exception skips the removal.
ReplayLeaking(w, raises) ==
    /\ At(w, "replay")
    /\ worker' = [worker EXCEPT ![w] = IF raises THEN Raised(w, "write") ELSE [@ EXCEPT !.phase = "remove"]]
    /\ UNCHANGED <<labels, status, outcome, supervisor, lock, trees, raced, trouble>>

\* The review of the worktree ends, or raises; both remove the worktree.
Replay(w, raises) ==
    /\ At(w, "replay")
    /\ worker' = [worker EXCEPT ![w] = IF raises THEN Raised(w, "remove") ELSE [@ EXCEPT !.phase = "remove"]]
    /\ UNCHANGED <<labels, status, outcome, supervisor, lock, trees, raced, trouble>>

\* The removal is not checked (check=False): where Git fails, the worktree stays and
\* the replay goes on.
RemoveTree(w, fails) ==
    /\ At(w, "remove") /\ lock = w
    /\ trees' = IF fails THEN WithoutTree(w) \union {Tree(w, TRUE)} ELSE WithoutTree(w)
    /\ lock' = None
    /\ worker' = [worker EXCEPT ![w].phase = "write",
                                ![w].made = IF worker[w].raised THEN None
                                            ELSE Result("done", worker[w].fp, worker[w].read)]
    /\ trouble' = trouble + (IF fails THEN 1 ELSE 0) /\ trouble' <= MaxTrouble
    /\ UNCHANGED <<labels, status, outcome, supervisor, raced>>

\* The result file; an exception leaves a process of its own as a failure.
WriteResult(w) ==
    /\ At(w, "write")
    /\ IF worker[w].raised /\ InProcess(w)
       THEN /\ worker' = [worker EXCEPT ![w] = [Ended("exited") EXCEPT !.raised = TRUE]]
            /\ UNCHANGED outcome
       ELSE LET r == IF worker[w].raised THEN Result("failed", worker[w].fp, None) ELSE worker[w].made
            IN /\ outcome' = [outcome EXCEPT ![w[2]] = r]
               /\ worker' = [worker EXCEPT ![w] = [Idle EXCEPT !.phase = "note", !.fp = worker[w].fp, !.made = r]]
    /\ UNCHANGED <<labels, status, supervisor, lock, trees, raced, trouble>>

\* The status file, last.
WriteStatus(w) ==
    /\ At(w, "note")
    /\ status' = [status EXCEPT ![w[2]] = Status(worker[w].made.state, worker[w].fp)]
    /\ worker' = [worker EXCEPT ![w] = [Ended("exited") EXCEPT !.made = IF InProcess(w) THEN worker[w].made ELSE None]]
    /\ UNCHANGED <<labels, outcome, supervisor, lock, trees, raced, trouble>>

-----------------------------------------------------------------------------
(* From outside. *)

EditLabels(c, v) ==
    /\ trouble < MaxTrouble /\ labels[c] # v
    /\ labels' = [labels EXCEPT ![c] = v]
    /\ trouble' = trouble + 1
    /\ raced' = IF \E r \in Runs : worker[<<r, c>>].phase = "labels" THEN raced \union {c} ELSE raced
    /\ UNCHANGED <<status, outcome, supervisor, worker, lock, trees>>

\* The supervisor is killed: its workers, in sessions of their own, go on; a
\* replay in its own process dies with it.
KillRun ==
    /\ mode # "idle" /\ trouble < MaxTrouble
    /\ IF mode = "sequential" /\ \E c \in active : Alive(<<run, c>>)
       THEN \E c \in active : Alive(<<run, c>>) /\ Kill(<<run, c>>)
       ELSE UNCHANGED <<worker, lock>>
    /\ mode' = "idle" /\ option' = None /\ queue' = {} /\ active' = {}
    /\ expected' = [c \in CaseIds |-> None] /\ results' = [c \in CaseIds |-> None]
    /\ trouble' = trouble + 1
    /\ UNCHANGED <<labels, status, outcome, run, trees, raced>>

KillWorker(w) ==
    /\ Alive(w) /\ ~InProcess(w) /\ trouble < MaxTrouble
    /\ Kill(w)
    /\ trouble' = trouble + 1
    /\ UNCHANGED <<labels, status, outcome, supervisor, trees, raced>>

Work(w) ==
    \/ ReadLabels(w) \/ FailEarly(w) \/ Lock(w) \/ AddTree(w) \/ AddFails(w)
    \/ \E raises \in BOOLEAN : Replay(w, raises)
    \/ \E fails \in {b \in BOOLEAN : b => w[2] \in Failing} : RemoveTree(w, fails)
    \/ WriteResult(w) \/ WriteStatus(w)

Supervise ==
    \/ StartCase \/ Report
    \/ \E c \in CaseIds : Overrun(c) \/ Collect(c) \/ CollectDead(c) \/ Return(c)

Next ==
    \/ \E call \in Commands(run + 1), resume \in BOOLEAN : StartRun(call[1], call[2], resume)
    \/ Supervise
    \/ \E w \in Workers : Work(w) \/ KillWorker(w)
    \/ \E c \in Edited, v \in Versions : EditLabels(c, v)
    \/ KillRun

Spec == Init /\ [][Next]_vars

-----------------------------------------------------------------------------
(* Properties. *)

\* What a resumed run takes over from files that earlier runs, killed runs and
\* surviving workers wrote is a finished result, replayed with the options of
\* this run and scored with the labels as they are (pr_eval/state.py:40), unless
\* they were edited between its fingerprint and its replay's reading of them;
\* and the report covers every case by a result of these options (runner.py:380).
ResumedResultsFit ==
    [][/\ mode = "idle" /\ mode' # "idle" =>
            \A c \in CaseIds : results'[c] # None =>
               /\ results'[c].state \in Finished
               /\ results'[c].fp.option = option'
               /\ (results'[c].scored = labels[c] \/ c \in raced)
       /\ mode # "idle" /\ mode' = "idle" /\ queue = {} /\ active = {} =>
            \A c \in CaseIds : results[c] # None /\ results[c].fp.option = option]_vars

\* A worktree stays registered in the repository only while its replay uses it, after its
\* process was killed, or where Git itself failed on it: whatever a replay raises, it asks
\* Git to remove its worktree, and the death of one replay costs no other one its worktree
\* (pr_eval/runner.py:748).
TreesOfTheDead ==
    /\ \A t \in trees : t.left \/ worker[t.of].phase \in {"replay", "remove", "killed"}
    /\ \A w \in Workers : worker[w].phase = "replay" => Tree(w, FALSE) \in trees

-----------------------------------------------------------------------------
(* Fairness: a supervisor polls its workers, and kills the ones that overrun *)
(* when a timeout is set; nothing is assumed of a worker in a process of its *)
(* own, which may hang.                                                      *)

FairSpec == Spec /\ WF_vars(Supervise)

\* A supervised run with a timeout ends, whatever its workers do and whoever
\* holds the lock (pr_eval/runner.py:366).
SupervisedRunEnds == mode = "supervised" ~> mode = "idle"

=============================================================================
